---- MODULE Spec2Model ----
(***************************************************************************)
(* Trust-and-audit core of Capstone-Backend: the account lockout tracker,  *)
(* the compliance monitor and the fraud scorer, each as a state machine    *)
(* translated from the JavaScript source.                                  *)
(*                                                                         *)
(* Time: Date.now() is in milliseconds; the model's clock counts seconds   *)
(* (one unit = 1000 ms), so 30*60*1000 ms is 1800 and a minute is 60.      *)
(* Strings whose characters matter (e-mail addresses) are sequences of     *)
(* character codes; IPv4 addresses are sequences of four octets.           *)
(***************************************************************************)
EXTENDS Integers, Sequences, FiniteSets, TLC

VARIABLES
    now,          \* the wall clock, Date.now(), in seconds
    attempts,     \* AccountLockout.attempts: Map key -> {count,last,ips,locked}
    lastCall,     \* the AccountLockout call that ran last at this clock
                  \*   reading: [name, key, before, ret] (name "none" after
                  \*   a tick); before is the count the key's record held
                  \*   when the call began, 0 if it had none
    streak,       \* observer: length of the current run of consecutive failed
                  \*   attempts of a key, each within resetTime of the previous
                  \*   one, with no success or unlock in between
    lastFail,     \* observer: when the last failed attempt of a key was recorded
    plain,        \* observer: the map of a second AccountLockout that receives
                  \*   the same calls at the same instants and whose cleanup
                  \*   timer never fires
    env,          \* process.env, read by the compliance checks
    runs,         \* the runContinuousChecks calls in progress, by slot
    results,      \* ComplianceMonitor.results: Map Date.now() -> summary
    auditLog,     \* ComplianceMonitor.auditLog, the in-process tail
    securityLog,  \* the documents of the security_audit_logs collection
    transactions, \* the rows of the transaction collection, oldest first
    fraudCall,    \* the analyzeTransaction call in progress or last returned
    earlier,      \* observer: the inputs and the result of one earlier
                  \*   analyzeTransaction call, for comparison with later ones
    financialLog,    \* the documents of financial_audit_logs, oldest first
    confidentialLog, \* the documents of confidential_access_logs
    privacyLog,      \* the documents of privacy_audit_logs
    payments,        \* the payment collection: transactionId -> paymentStatus
    auditCall,       \* the auditLogger call or sync request that ran last:
                     \*   [name, outcome]
    report,          \* what generateReport returned last
    events,          \* the getRecentEvents call that ran last, and what it
                     \*   returned
    rate             \* one rate limiter: its options (cfg), whether NODE_ENV
                     \*   is development (dev), its store (hits: client ->
                     \*   window) and the limiter's last request (last)

lockVars == <<attempts, lastCall, streak, lastFail, plain>>
monVars == <<env, runs, results, auditLog, securityLog, report, events>>
fraudVars == <<transactions, fraudCall, earlier>>
auditVars == <<financialLog, confidentialLog, privacyLog, payments, auditCall>>

vars == <<now, attempts, lastCall, streak, lastFail, plain,
          env, runs, results, auditLog, securityLog, transactions, fraudCall,
          earlier, financialLog, confidentialLog, privacyLog, payments, auditCall,
          report, events, rate>>

(***************************************************************************)
(* Bounds of the model                                                     *)
(***************************************************************************)
MaxNow == 1830       \* the clock stops advancing after this many seconds
MaxTotal == 6        \* failed attempts held in the map, over all keys
MaxEvents == 2       \* compliance runs started, in all
MaxTransactions == 5 \* rows in the transaction collection
MaxFraudNow == 601   \* the clock stops advancing under the scorer after this
MaxFraudEvents == 1  \* FRAUD_CHECK documents stored
MaxMonNow == 60      \* the clock stops advancing under the monitor after this

(***************************************************************************)
(* Inputs                                                                  *)
(***************************************************************************)
\* "A@x", "a@x", "b@x" as character codes
Emails == { <<65, 64, 120>>, <<97, 64, 120>>, <<98, 64, 120>> }

LoginIPs == { <<10, 0, 0, 5>>, <<8, 8, 8, 8>> }

\* the failed logins that arrive: <<email, source address>>; the key "a@x"
\* is reached under two spellings and from two addresses
Logins == { << <<65, 64, 120>>, <<10, 0, 0, 5>> >>,
            << <<97, 64, 120>>, <<8, 8, 8, 8>> >>,
            << <<98, 64, 120>>, <<10, 0, 0, 5>> >> }

\* clock advances, in seconds: exactly one reset window, and just over one
Ticks == { 900, 910 }

(***************************************************************************)
(* AccountLockout                                                          *)
(***************************************************************************)
max == 5
lockTime == 1800
resetTime == 900
SecondsPerMinute == 60

\* String.prototype.toLowerCase on a string of character codes
toLowerCase(s) == [i \in DOMAIN s |-> IF s[i] \in 65..90 THEN s[i] + 32 ELSE s[i]]

Keys == { toLowerCase(e) : e \in Emails }

\* Map operations
EmptyMap == [k \in {} |-> 0]
MapHas(m, k) == k \in DOMAIN m
MapSet(m, k, v) == [x \in DOMAIN m \cup {k} |-> IF x = k THEN v ELSE m[x]]
MapDelete(m, k) == [x \in DOMAIN m \ {k} |-> m[x]]

\* Math.ceil(a / b) for a >= 0, b > 0
Ceil(a, b) == (a + b - 1) \div b

\* a falsy `locked` is null (or 0): the field is never set to 0 by the code
Null == 0

\* mutants of FailedRecord
\* the lock is set one failure late (count > max)
FailedRecord_LockLate(found, record, ip, t) ==
    IF ~found \/ t - record.last > resetTime
    THEN [count |-> 1, last |-> t, ips |-> <<ip>>, locked |-> Null]
    ELSE LET c == record.count + 1
         IN  [count |-> c, last |-> t, ips |-> Append(record.ips, ip),
              locked |-> IF c > max THEN t + lockTime ELSE record.locked]

\* a reset after the window keeps the old record's lock
FailedRecord_KeepLock(found, record, ip, t) ==
    IF ~found \/ t - record.last > resetTime
    THEN [count |-> 1, last |-> t, ips |-> <<ip>>,
          locked |-> IF found THEN record.locked ELSE Null]
    ELSE LET c == record.count + 1
         IN  [count |-> c, last |-> t, ips |-> Append(record.ips, ip),
              locked |-> IF c >= max THEN t + lockTime ELSE record.locked]

\* a second failure at the same instant overwrites the first one's update
FailedRecord_LostUpdate(found, record, ip, t) ==
    IF ~found \/ t - record.last > resetTime
    THEN [count |-> 1, last |-> t, ips |-> <<ip>>, locked |-> Null]
    ELSE LET c == IF t = record.last THEN record.count ELSE record.count + 1
         IN  [count |-> c, last |-> t, ips |-> Append(record.ips, ip),
              locked |-> IF c >= max THEN t + lockTime ELSE record.locked]

\* a failure exactly resetTime after the last one resets the record
FailedRecord_ResetAtBoundary(found, record, ip, t) ==
    IF ~found \/ t - record.last >= resetTime
    THEN [count |-> 1, last |-> t, ips |-> <<ip>>, locked |-> Null]
    ELSE LET c == record.count + 1
         IN  [count |-> c, last |-> t, ips |-> Append(record.ips, ip),
              locked |-> IF c >= max THEN t + lockTime ELSE record.locked]

\* the record recordFailedAttempt leaves for a key, given the one it found
\* (found = FALSE: the map had none)
FailedRecord(found, record, ip, t) ==
    IF ~found \/ t - record.last > resetTime
    THEN [count |-> 1, last |-> t, ips |-> <<ip>>, locked |-> Null]
    ELSE LET c == record.count + 1
         IN  [count |-> c, last |-> t, ips |-> Append(record.ips, ip),
              locked |-> IF c >= max THEN t + lockTime ELSE record.locked]

recordFailedAttempt(m, email, ip, t) ==
    LET key == toLowerCase(email)
        found == MapHas(m, key)
    IN  MapSet(m, key, FailedRecord(found, IF found THEN m[key] ELSE Null, ip, t))

\* mutant: the key is not normalised
recordSuccessfulLogin_RawKey(m, email) == MapDelete(m, email)

recordSuccessfulLogin(m, email) == MapDelete(m, toLowerCase(email))

\* isLocked: the value returned
isLockedResult(m, email, t) ==
    LET key == toLowerCase(email)
    IN  IF ~MapHas(m, key) \/ m[key].locked = Null
        THEN [locked |-> FALSE]
        ELSE IF t < m[key].locked
             THEN [locked |-> TRUE,
                   remainingMinutes |-> Ceil(m[key].locked - t, SecondsPerMinute),
                   unlockAt |-> m[key].locked]
             ELSE [locked |-> FALSE]

\* isLocked: the map it leaves (an expired lock's record is deleted)
isLockedMap(m, email, t) ==
    LET key == toLowerCase(email)
    IN  IF ~MapHas(m, key) \/ m[key].locked = Null THEN m
        ELSE IF t < m[key].locked THEN m
             ELSE MapDelete(m, key)

\* mutant: the sweep does not wait for the lock to expire
Stale_WhileLocked(rec, t) == rec.locked # Null /\ t - rec.last > resetTime

\* cleanup deletes the records this holds of
Stale(rec, t) == rec.locked # Null /\ rec.locked < t /\ t - rec.last > resetTime

cleanup(m, t) == [k \in { x \in DOMAIN m : ~Stale(m[x], t) } |-> m[k]]

unlockAccountResult(m, email) == MapHas(m, toLowerCase(email))

\* mutant: unlocking one identity clears the map
unlockAccount_All(m, email) ==
    IF MapHas(m, toLowerCase(email)) THEN EmptyMap ELSE m

unlockAccount(m, email) ==
    IF MapHas(m, toLowerCase(email)) THEN MapDelete(m, toLowerCase(email)) ELSE m

\* mutant: a lock is still listed at the instant it expires
getLockedAccounts_AtExpiry(m, t) ==
    { [email |-> k, attempts |-> m[k].count, lockedUntil |-> m[k].locked,
       remainingMinutes |-> Ceil(m[k].locked - t, SecondsPerMinute)] :
      k \in { x \in DOMAIN m : m[x].locked # Null /\ m[x].locked >= t } }

getLockedAccounts(m, t) ==
    { [email |-> k, attempts |-> m[k].count, lockedUntil |-> m[k].locked,
       remainingMinutes |-> Ceil(m[k].locked - t, SecondsPerMinute)] :
      k \in { x \in DOMAIN m : m[x].locked # Null /\ m[x].locked > t } }

(***************************************************************************)
(* Observers of the lockout calls                                          *)
(***************************************************************************)
TotalCount(m) ==
    LET RECURSIVE Sum(_)
        Sum(S) == IF S = {} THEN 0
                  ELSE LET k == CHOOSE x \in S : TRUE
                       IN  m[k].count + Sum(S \ {k})
    IN  Sum(DOMAIN m)

\* the run of consecutive in-window failures after one more failure at t
StreakAfterFailure(k, t) ==
    IF streak[k] = 0 \/ t - lastFail[k] > resetTime THEN 1 ELSE streak[k] + 1

(***************************************************************************)
(* Actions of the lockout tracker.  Every method of AccountLockout is      *)
(* synchronous (it holds no await), so a call runs to completion as one    *)
(* step; concurrent callers are steps taken in any order.                  *)
(***************************************************************************)
\* a call that returns nothing returns undefined
Undefined == [undefined |-> TRUE]

NoCall == [name |-> "none", key |-> <<>>, before |-> 0, ret |-> Undefined]

CountOf(m, k) == IF MapHas(m, k) THEN m[k].count ELSE 0

\* now - record.last as a call at t finds it; -1 when the map has no record
SinceLast(m, k, t) == IF MapHas(m, k) THEN t - m[k].last ELSE -1

LockInit ==
    /\ now = 0
    /\ attempts = EmptyMap
    /\ lastCall = NoCall
    /\ streak = [k \in Keys |-> 0]
    /\ lastFail = [k \in Keys |-> 0]
    /\ plain = EmptyMap

Tick(d) ==
    /\ now + d <= MaxNow
    /\ now' = now + d
    /\ lastCall' = NoCall
    /\ UNCHANGED <<attempts, streak, lastFail, plain>>
    /\ UNCHANGED <<monVars, fraudVars, auditVars, rate>>

RecordFailedAttempt(email, ip) ==
    LET key == toLowerCase(email)
    IN  /\ TotalCount(attempts) < MaxTotal
        /\ attempts' = recordFailedAttempt(attempts, email, ip, now)
        /\ lastCall' = [name |-> "recordFailedAttempt", key |-> key,
                        before |-> CountOf(attempts, key),
                        since |-> SinceLast(attempts, key, now), ret |-> Undefined]
        /\ streak' = [streak EXCEPT ![key] = StreakAfterFailure(key, now)]
        /\ lastFail' = [lastFail EXCEPT ![key] = now]
        /\ plain' = recordFailedAttempt(plain, email, ip, now)
        /\ UNCHANGED now
    /\ UNCHANGED <<monVars, fraudVars, auditVars, rate>>

RecordSuccessfulLogin(email) ==
    LET key == toLowerCase(email)
    IN  /\ attempts' = recordSuccessfulLogin(attempts, email)
        /\ lastCall' = [name |-> "recordSuccessfulLogin", key |-> key,
                        before |-> CountOf(attempts, key), ret |-> Undefined]
        /\ streak' = [streak EXCEPT ![key] = 0]
        /\ plain' = recordSuccessfulLogin(plain, email)
        /\ UNCHANGED <<now, lastFail>>
    /\ UNCHANGED <<monVars, fraudVars, auditVars, rate>>

IsLocked(email) ==
    /\ attempts' = isLockedMap(attempts, email, now)
    /\ lastCall' = [name |-> "isLocked", key |-> toLowerCase(email),
                    before |-> CountOf(attempts, toLowerCase(email)),
                    ret |-> isLockedResult(attempts, email, now)]
    /\ plain' = isLockedMap(plain, email, now)
    /\ UNCHANGED <<now, streak, lastFail>>
    /\ UNCHANGED <<monVars, fraudVars, auditVars, rate>>

\* the hourly timer of the constructor
Cleanup ==
    /\ attempts' = cleanup(attempts, now)
    /\ lastCall' = [name |-> "cleanup", key |-> <<>>, before |-> 0, ret |-> Undefined]
    /\ UNCHANGED <<now, streak, lastFail, plain>>
    /\ UNCHANGED <<monVars, fraudVars, auditVars, rate>>

UnlockAccount(email) ==
    LET key == toLowerCase(email)
    IN  /\ attempts' = unlockAccount(attempts, email)
        /\ lastCall' = [name |-> "unlockAccount", key |-> key,
                        before |-> CountOf(attempts, key),
                        ret |-> [unlocked |-> unlockAccountResult(attempts, email)]]
        /\ streak' = [streak EXCEPT ![key] = 0]
        /\ plain' = unlockAccount(plain, email)
        /\ UNCHANGED <<now, lastFail>>
    /\ UNCHANGED <<monVars, fraudVars, auditVars, rate>>

GetLockedAccounts ==
    /\ lastCall' = [name |-> "getLockedAccounts", key |-> <<>>, before |-> 0,
                    ret |-> [accounts |-> getLockedAccounts(attempts, now)]]
    /\ UNCHANGED <<now, attempts, streak, lastFail, plain>>
    /\ UNCHANGED <<monVars, fraudVars, auditVars, rate>>

LockNext ==
    \/ \E d \in Ticks : Tick(d)
    \/ \E l \in Logins : RecordFailedAttempt(l[1], l[2])
    \/ \E e \in Emails : RecordSuccessfulLogin(e)
    \/ \E e \in Emails : IsLocked(e)
    \/ Cleanup
    \/ \E e \in Emails : UnlockAccount(e)
    \/ GetLockedAccounts

(***************************************************************************)
(* The tracker left alone: failures stop arriving, the clock runs on and   *)
(* the constructor's interval timer keeps calling cleanup()                *)
(***************************************************************************)
MaxFailNow == 910     \* no failure arrives after this many seconds

\* something about the record of k still depends on the clock: it is inside
\* its reset window, or it holds a lock that has not expired yet
ClockMatters(k) ==
    /\ MapHas(attempts, k)
    /\ \/ now - attempts[k].last <= resetTime
       \/ attempts[k].locked # Null /\ attempts[k].locked >= now

\* a record no call has touched for longer than resetTime
Inactive(k) == MapHas(attempts, k) /\ now - attempts[k].last > resetTime

LateFailure(email, ip) ==
    /\ now <= MaxFailNow
    /\ RecordFailedAttempt(email, ip)

\* the clock advances; once no failure can arrive and no record is pending,
\* nothing any method computes depends on how much later it is
SweepTick(d) ==
    /\ now <= MaxFailNow \/ \E k \in Keys : ClockMatters(k)
    /\ now' = now + d
    /\ lastCall' = NoCall
    /\ UNCHANGED <<attempts, streak, lastFail, plain>>
    /\ UNCHANGED <<monVars, fraudVars, auditVars, rate>>

SweepNext ==
    \/ \E l \in Logins : LateFailure(l[1], l[2])
    \/ \E d \in Ticks : SweepTick(d)
    \/ Cleanup

\* time passes, and setInterval keeps firing cleanup
SweepFairness ==
    /\ WF_vars(\E d \in Ticks : SweepTick(d))
    /\ WF_vars(Cleanup)

(***************************************************************************)
(* Properties of the lockout tracker                                       *)
(***************************************************************************)
\* a key is locked at the current instant (what isLocked reports, without
\* its side effect)
LockedNow(k) == MapHas(attempts, k) /\ attempts[k].locked # Null /\ now < attempts[k].locked

\* C1: after exactly max (5) consecutive failed attempts of an identity, each
\* within resetTime of the previous one and with no success in between, the
\* lock runs lockTime from the last of them: until then isLocked returns
\* locked with remainingMinutes > 0, and from then on isLocked returns
\* not-locked and leaves no record of the identity.
C1_LockedAfterMaxAttempts ==
    \A e \in Emails :
        LET k == toLowerCase(e)
            until == lastFail[k] + lockTime
            r == isLockedResult(attempts, e, now)
        IN  streak[k] = max =>
              /\ MapHas(attempts, k) => attempts[k].locked = until
              /\ now < until =>
                    /\ MapHas(attempts, k)
                    /\ r.locked /\ r.remainingMinutes > 0
                    /\ isLockedMap(attempts, e, now) = attempts
                    /\ (lastCall.name = "isLocked" /\ lastCall.key = k) =>
                           lastCall.ret.locked /\ lastCall.ret.remainingMinutes > 0
              /\ now >= until =>
                    /\ ~r.locked
                    /\ ~MapHas(isLockedMap(attempts, e, now), k)
                    /\ (lastCall.name = "isLocked" /\ lastCall.key = k) =>
                           ~lastCall.ret.locked /\ ~MapHas(attempts, k)

\* C1 witness: five failures in a row, the lock has run out, and isLocked has
\* just answered not-locked and removed the record
C1_Witness ==
    \E k \in Keys :
        /\ streak[k] = max
        /\ now >= lastFail[k] + lockTime
        /\ lastCall.name = "isLocked" /\ lastCall.key = k
        /\ lastCall.before = max
        /\ ~lastCall.ret.locked
        /\ ~MapHas(attempts, k)

\* C2 (as claimed): while an identity is locked, a further failed attempt
\* leaves its lockedUntil unchanged.
C2_FailureWhileLockedKeepsLock ==
    [][ \A k \in Keys :
          (LockedNow(k) /\ lastCall'.name = "recordFailedAttempt" /\ lastCall'.key = k)
              => (MapHas(attempts', k) /\ attempts'[k].locked = attempts[k].locked) ]_vars

\* C3 (as claimed): once the locking failure has set lockedUntil, the identity
\* stays locked at every instant before that lockedUntil unless
\* recordSuccessfulLogin or unlockAccount clears it.  (count = max: the lock
\* is the one the locking failure set.)
C3_LockedUntilExpiry ==
    [][ \A k \in Keys :
          ( /\ LockedNow(k) /\ attempts[k].count = max
            /\ now' < attempts[k].locked
            /\ ~(lastCall'.key = k /\
                 lastCall'.name \in {"recordSuccessfulLogin", "unlockAccount"}) )
              => (MapHas(attempts', k) /\ attempts'[k].locked # Null
                  /\ now' < attempts'[k].locked) ]_vars

\* C4: recordSuccessfulLogin resets the identity whatever its count and
\* whether or not it is locked: no record is left, isLocked answers
\* not-locked, and the next failure starts at count 1.
C4_SuccessResets ==
    \A l \in Logins :
        LET k == toLowerCase(l[1])
        IN  (lastCall.name = "recordSuccessfulLogin" /\ lastCall.key = k) =>
              /\ ~MapHas(attempts, k)
              /\ ~isLockedResult(attempts, l[1], now).locked
              /\ recordFailedAttempt(attempts, l[1], l[2], now)[k].count = 1
              /\ recordFailedAttempt(attempts, l[1], l[2], now)[k].locked = Null

\* C4 witness: a success that found a locked identity with more than max failures
C4_Witness ==
    /\ lastCall.name = "recordSuccessfulLogin"
    /\ lastCall.before > max
    /\ now < lastFail[lastCall.key] + lockTime
    /\ ~MapHas(attempts, lastCall.key)

\* C5: a record has lockedUntil set only if its count is at least max.
C5_LockOnlyAtMax ==
    \A k \in DOMAIN attempts : attempts[k].locked # Null => attempts[k].count >= max

\* C5 witness: a record was reset by a failure after the window, from a
\* locked one, and holds count 1 and no lock
C5_Witness ==
    /\ lastCall.name = "recordFailedAttempt"
    /\ lastCall.before >= max
    /\ attempts[lastCall.key].count = 1
    /\ attempts[lastCall.key].locked = Null

\* C6: failed attempts of one identity arriving together, in any order and each
\* within the reset window of the one before, lose no update: after K of them
\* (from no record) the count is K, and the identity is locked iff K >= max.
C6_NoLostUpdate ==
    \A k \in Keys :
        (MapHas(attempts, k) /\ streak[k] >= 1) =>
            /\ attempts[k].count = streak[k]
            /\ Len(attempts[k].ips) = streak[k]
            /\ (attempts[k].locked # Null) <=> (streak[k] >= max)
            /\ now < lastFail[k] + lockTime => (LockedNow(k) <=> streak[k] >= max)

\* C6 witness: a burst of more than max failures of one key at one instant,
\* arriving under both spellings of the identity
C6_Witness ==
    \E k \in Keys :
        /\ streak[k] > max /\ lastFail[k] = 0 /\ now = 0
        /\ attempts[k].count = streak[k]
        /\ \E i, j \in DOMAIN attempts[k].ips : attempts[k].ips[i] # attempts[k].ips[j]
        /\ LockedNow(k)

\* C20: recordFailedAttempt creates or resets the record to count 1 with no
\* lock when the map has no record for the key or the last failure is more
\* than resetTime old (strictly: a failure exactly resetTime after the last
\* one increments); otherwise it adds exactly 1 to count, appends the source
\* address and sets last to now
C20_CreateResetOrIncrement ==
    [][lastCall'.name = "recordFailedAttempt" =>
         LET k == lastCall'.key
             new == attempts'[k]
         IN  IF ~MapHas(attempts, k) \/ now - attempts[k].last > resetTime
             THEN /\ new.count = 1
                  /\ new.locked = Null
                  /\ new.last = now
                  /\ Len(new.ips) = 1
             ELSE /\ new.count = attempts[k].count + 1
                  /\ Len(new.ips) = Len(attempts[k].ips) + 1
                  /\ SubSeq(new.ips, 1, Len(attempts[k].ips)) = attempts[k].ips
                  /\ new.ips[Len(new.ips)] \in LoginIPs
                  /\ new.last = now]_vars

\* a failure exactly resetTime after the previous one has incremented the
\* record it found
C20_Witness ==
    /\ lastCall.name = "recordFailedAttempt"
    /\ lastCall.since = resetTime
    /\ lastCall.before >= 1
    /\ attempts[lastCall.key].count = lastCall.before + 1
    /\ attempts[lastCall.key].last = now

\* the count the key of a failed login reaches when it is recorded in map m now
CountReached(m, l) == recordFailedAttempt(m, l[1], l[2], now)[toLowerCase(l[1])].count

\* C22: the periodic sweep has no semantic effect: after any sequence of
\* calls and clock advances, isLocked and getLockedAccounts return the same
\* and a further failure reaches the same count, whether cleanup has run at
\* arbitrary points of the sequence or never
C22_SweepUnobservable ==
    /\ \A e \in Emails : isLockedResult(attempts, e, now) = isLockedResult(plain, e, now)
    /\ getLockedAccounts(attempts, now) = getLockedAccounts(plain, now)
    /\ \A l \in Logins : CountReached(attempts, l) = CountReached(plain, l)

\* cleanup has deleted a record that the tracker without sweep still holds,
\* and getLockedAccounts has been called since
C22_Witness ==
    /\ lastCall.name = "getLockedAccounts"
    /\ \E k \in Keys : MapHas(plain, k) /\ ~MapHas(attempts, k)

\* C27: the list of source addresses of a lockout record is bounded: whatever
\* failures are recorded for an identity, also while it is locked, the list
\* never grows beyond a fixed length; the one length the tracker knows is max,
\* the number of failures that locks the identity
C27_SourcesBounded ==
    \A k \in DOMAIN attempts : Len(attempts[k].ips) <= max

\* C28: the lockout records of different identities are independent: a call
\* of recordFailedAttempt, recordSuccessfulLogin, isLocked or unlockAccount
\* for one identity leaves the record of every other identity as it was, two
\* spellings that differ only in letter case being one identity
C28_IdentitiesIndependent ==
    [][lastCall'.name \in {"recordFailedAttempt", "recordSuccessfulLogin",
                          "isLocked", "unlockAccount"} =>
         \A k \in Keys \ {lastCall'.key} :
             /\ MapHas(attempts', k) = MapHas(attempts, k)
             /\ MapHas(attempts, k) => attempts'[k] = attempts[k]]_vars

\* the identity a@x held two failures and has been unlocked, while b@x keeps
\* its record of two failures
C28_Witness ==
    /\ lastCall.name = "unlockAccount"
    /\ lastCall.key = <<97, 64, 120>>
    /\ lastCall.before = 2
    /\ ~MapHas(attempts, <<97, 64, 120>>)
    /\ MapHas(attempts, <<98, 64, 120>>)
    /\ attempts[<<98, 64, 120>>].count = 2

\* C29: at any instant getLockedAccounts lists exactly the identities for
\* which isLocked would answer locked: true at that instant, with the same
\* remainingMinutes, and the call leaves the lockout map as it was
C29_ListedIffLocked ==
    [][lastCall'.name = "getLockedAccounts" =>
         /\ attempts' = attempts
         /\ \A a \in lastCall'.ret.accounts : a.email \in Keys
         /\ \A e \in Emails :
               LET r == isLockedResult(attempts, e, now)
                   listed == { a \in lastCall'.ret.accounts : a.email = toLowerCase(e) }
               IN  IF r.locked
                   THEN /\ Cardinality(listed) = 1
                        /\ \A a \in listed : a.remainingMinutes = r.remainingMinutes
                   ELSE listed = {}]_vars

\* getLockedAccounts has listed the one locked identity and left out another
\* identity that holds a record
C29_Witness ==
    /\ lastCall.name = "getLockedAccounts"
    /\ Cardinality(lastCall.ret.accounts) = 1
    /\ Cardinality(DOMAIN attempts) = 2
    /\ \A a \in lastCall.ret.accounts : a.remainingMinutes = 15

\* C21: a lockout record that sees no activity for the reset window is
\* eventually deleted by the periodic sweep, whether or not the identity was
\* ever locked: no record stays inactive in the map forever
C21_InactiveEventuallyDeleted ==
    \A k \in Keys : ~<>[]Inactive(k)

(***************************************************************************)
(* ComplianceMonitor                                                       *)
(***************************************************************************)
\* process.env as the checks read it: the length of SECRET_TOKEN (0: unset
\* or empty), JWT_EXPIRES_TIME as the number parseInt reads and whether the
\* string ends with 'h' (n = 0: unset), and whether JWT_REFRESH_EXPIRES_TIME
\* is set
Envs ==
    { [secretLen |-> 64, expiry |-> [n |-> 6, h |-> TRUE], refresh |-> TRUE],
      [secretLen |-> 16, expiry |-> [n |-> 0, h |-> FALSE], refresh |-> FALSE],
      [secretLen |-> 32, expiry |-> [n |-> 1, h |-> FALSE], refresh |-> TRUE] }

\* what the checks that reach the database meet in one run: for
\* checkDatabase mongoose.connection.readyState and whether the dynamic
\* import or the test query throws; for checkLogs whether countDocuments
\* throws, and the counts of the last hour and of the whole collection
Conditions ==
    { [importThrows |-> FALSE, readyState |-> 1, queryThrows |-> FALSE,
       logThrows |-> FALSE, recent |-> 0, total |-> 10],
      [importThrows |-> FALSE, readyState |-> 0, queryThrows |-> TRUE,
       logThrows |-> TRUE, recent |-> 0, total |-> 0],
      [importThrows |-> TRUE, readyState |-> 1, queryThrows |-> FALSE,
       logThrows |-> FALSE, recent |-> 0, total |-> 11] }

\* the slots in which calls of runContinuousChecks run; calls overlap
Slots == { 1, 2 }

MonTicks == { 60 }

MinSecretLen == 32
MAX_HOURS == 6
LongExpiryHours == 12
HoursPerDay == 24
LogsFloor == 10
TailMax == 1000
HighSeverityAbove == 3

AllowedOrigins == { "http://localhost:5173", "https://www.avgallery.shop",
                    "https://avgallery.shop" }

\* an async function's promise: fulfilled with a value, or rejected
Fulfilled(v) == [status |-> "fulfilled", value |-> v]
Rejected(msg) == [status |-> "rejected", reason |-> msg]

CheckResult(control, name, issues) ==
    [control |-> control, name |-> name, passed |-> Len(issues) = 0, issues |-> issues]

checkAuth(ev) ==
    Fulfilled(CheckResult("CC6.1", "Authentication Controls",
        IF ev.secretLen = 0 \/ ev.secretLen < MinSecretLen
        THEN << "JWT secret not configured or too weak" >> ELSE << >>))

checkEncryption == Fulfilled(CheckResult("CC6.3/CC6.4", "Encryption Controls", << >>))

stateMap(s) ==
    CASE s = 0 -> "disconnected" [] s = 2 -> "connecting" [] s = 3 -> "disconnecting"
      [] OTHER -> "unknown state"

\* the try block runs the import, the readyState test and the query in that
\* order; a throw jumps to the catch, which adds its issue to those pushed
checkDatabase(db) ==
    LET afterState == IF db.importThrows THEN << >>
                      ELSE IF db.readyState # 1
                           THEN << <<"Database not connected", stateMap(db.readyState)>> >>
                           ELSE << >>
        issues == IF db.importThrows \/ db.queryThrows
                  THEN Append(afterState, <<"Database connectivity error", "e.message">>)
                  ELSE afterState
    IN  Fulfilled(CheckResult("A1.2", "Database Connectivity", issues))

\* mutant: the query is outside the try block
checkLogs_NoCatch(lg) ==
    IF lg.logThrows THEN Rejected("countDocuments failed")
    ELSE Fulfilled(CheckResult("C1.2", "Access Log Controls",
            IF lg.recent = 0 /\ lg.total > LogsFloor
            THEN << "No security audit logs in the last hour (may indicate logging failure)" >>
            ELSE << >>))

checkLogs(lg) ==
    Fulfilled(CheckResult("C1.2", "Access Log Controls",
        IF lg.logThrows THEN << <<"Error checking logs", "e.message">> >>
        ELSE IF lg.recent = 0 /\ lg.total > LogsFloor
             THEN << "No security audit logs in the last hour (may indicate logging failure)" >>
             ELSE << >>))

checkRateLimit == Fulfilled(CheckResult("CC6.1", "Rate Limiting Controls", << >>))

checkCORS ==
    Fulfilled(CheckResult("CC6.2", "CORS Configuration",
        (IF Cardinality(AllowedOrigins) = 0 THEN << "CORS whitelist is empty" >> ELSE << >>)
        \o (IF "*" \in AllowedOrigins THEN << "CORS uses wildcard" >> ELSE << >>)))

\* JWT_EXPIRES_TIME || '24h', then parseInt, times 24 unless it ends with 'h'
TokenHours(ev) ==
    LET expiry == IF ev.expiry.n = 0 THEN [n |-> 24, h |-> TRUE] ELSE ev.expiry
    IN  IF expiry.h THEN expiry.n ELSE expiry.n * HoursPerDay

checkTokenExpiry(ev) ==
    LET hours == TokenHours(ev)
    IN  Fulfilled(CheckResult("CC6.1", "Token Expiration Policy",
            (IF hours > MAX_HOURS
             THEN << <<"Token expiration exceeds recommendation", hours>> >> ELSE << >>)
            \o (IF ~ev.refresh /\ hours > LongExpiryHours
                THEN << "Long token expiration without refresh token system" >>
                ELSE << >>)))

\* the seven promises handed to Promise.all, in order
CheckPromises(ev, c) ==
    << checkAuth(ev), checkEncryption, checkDatabase(c), checkLogs(c),
       checkRateLimit, checkCORS, checkTokenExpiry(ev) >>

\* Promise.all: the values in order, or the rejection of the first that rejects
PromiseAll(ps) ==
    IF \E i \in DOMAIN ps : ps[i].status = "rejected"
    THEN LET i == CHOOSE j \in DOMAIN ps :
                      /\ ps[j].status = "rejected"
                      /\ \A h \in DOMAIN ps : ps[h].status = "rejected" => j <= h
         IN  Rejected(ps[i].reason)
    ELSE Fulfilled([i \in DOMAIN ps |-> ps[i].value])

NotPassed(r) == ~r.passed

\* mutant: the checks are counted by control id (three share CC6.1)
Tally_ByControl(checks) ==
    LET failed == SelectSeq(checks, NotPassed)
        total == Cardinality({ checks[i].control : i \in DOMAIN checks })
    IN  [failed |-> failed, total |-> total, passed |-> total - Len(failed)]

\* failed, total and passed of a run
Tally(checks) ==
    LET failed == SelectSeq(checks, NotPassed)
        total == Len(checks)
    IN  [failed |-> failed, total |-> total, passed |-> total - Len(failed)]

\* ((passed / total) * 100).toFixed(1), in tenths of a percent
PassRate(passed, total) == (passed * 2000 + total) \div (2 * total)

FailedNames(failed) == [i \in DOMAIN failed |-> failed[i].name]

\* mutant: three failed checks already count as HIGH
EventData_HighAtThree(checks, t) ==
    LET y == Tally(checks)
        n == Len(y.failed)
    IN  [eventCategory |-> "SECURITY", action |-> "COMPLIANCE_CHECK",
         result |-> IF n = 0 THEN "SUCCESS" ELSE "FAILURE",
         severity |-> IF n = 0 THEN "LOW"
                      ELSE IF n >= HighSeverityAbove THEN "HIGH" ELSE "MEDIUM",
         userId |-> "SYSTEM", timestamp |-> t,
         metadata |-> [totalChecks |-> y.total, passed |-> y.passed, failed |-> n,
                       passRate |-> PassRate(y.passed, y.total),
                       failedChecks |-> FailedNames(y.failed)]]

\* the COMPLIANCE_CHECK event of a run
EventData(checks, t) ==
    LET y == Tally(checks)
        n == Len(y.failed)
    IN  [eventCategory |-> "SECURITY", action |-> "COMPLIANCE_CHECK",
         result |-> IF n = 0 THEN "SUCCESS" ELSE "FAILURE",
         severity |-> IF n = 0 THEN "LOW"
                      ELSE IF n > HighSeverityAbove THEN "HIGH" ELSE "MEDIUM",
         userId |-> "SYSTEM", timestamp |-> t,
         metadata |-> [totalChecks |-> y.total, passed |-> y.passed, failed |-> n,
                       passRate |-> PassRate(y.passed, y.total),
                       failedChecks |-> FailedNames(y.failed)]]

\* the entry pushed on the in-process tail
TailEntry(ev) ==
    [timestamp |-> ev.timestamp, type |-> ev.eventCategory, category |-> ev.action,
     message |-> <<"Compliance check", ev.result, ev.metadata.passed, ev.metadata.totalChecks>>,
     severity |-> ev.severity, status |-> ev.result, details |-> ev.metadata]

\* Array.prototype.slice(-n)
SliceLast(q, n) == IF Len(q) > n THEN SubSeq(q, Len(q) - n + 1, Len(q)) ELSE q

PushTail(q, entry) ==
    LET pushed == Append(q, entry)
    IN  IF Len(pushed) > TailMax THEN SliceLast(pushed, TailMax) ELSE pushed

\* the document auditLogger.logSecurityEvent builds
SecurityEventData(e, t) ==
    [timestamp |-> t, eventType |-> "SECURITY_EVENT", controlId |-> "CC6.1",
     userId |-> e.userId, action |-> e.action, resource |-> e.resource,
     result |-> e.result, ipAddress |-> e.ip,
     severity |-> IF e.severity = "" THEN "INFO" ELSE e.severity,
     details |-> e.details]

\* mutant: auditLogger.logSecurityEvent without the try/catch around create
logSecurityEvent_NoCatch(e, t, created) ==
    IF created THEN Fulfilled(SecurityEventData(e, t)) ELSE Rejected("create failed")

\* auditLogger.logSecurityEvent(e): builds the document, awaits
\* SecurityAuditLog.create inside try/catch (created = FALSE: it threw) and
\* returns the document either way
logSecurityEvent(e, t, created) == Fulfilled(SecurityEventData(e, t))

\* the event alert() logs
AlertEvent(failed, t) ==
    [userId |-> "SYSTEM", action |-> "COMPLIANCE_ALERT",
     resource |-> "COMPLIANCE_MONITORING", result |-> "ALERT_SENT",
     ip |-> <<127, 0, 0, 1>>, severity |-> "HIGH",
     details |-> [severity |-> "HIGH", failedChecks |-> failed, timestamp |-> t]]

\* the document Model.create stores of a COMPLIANCE_CHECK event: the schema
\* (strict) keeps the fields it declares
StoredCheckEvent(ev) ==
    [timestamp |-> ev.timestamp, action |-> ev.action, result |-> ev.result,
     severity |-> ev.severity, userId |-> ev.userId]

Summary(checks, t) ==
    LET y == Tally(checks)
    IN  [timestamp |-> t, totalChecks |-> y.total, passed |-> y.passed,
         failed |-> Len(y.failed), passRate |-> PassRate(y.passed, y.total),
         details |-> checks]

IdleRun == [pc |-> "idle"]

\* getRecentEvents not called yet
NoEvents == [called |-> FALSE]

\* no report generated yet
NoReport == [period |-> ""]

MonInit ==
    /\ env \in Envs
    /\ report = NoReport
    /\ events = NoEvents
    /\ runs = [s \in Slots |-> IdleRun]
    /\ results = EmptyMap
    /\ auditLog = << >>
    /\ securityLog = << >>

Active(s) == runs[s].pc \in {"checking", "logging", "alerting"}

Started == Len(auditLog) + Cardinality({ s \in Slots : runs[s].pc \in {"checking", "logging"} })

\* runContinuousChecks is called (timer tick, startup or route): the seven
\* checks start and the call waits on Promise.all
StartRun(s) ==
    /\ ~Active(s)
    /\ Started < MaxEvents
    /\ runs' = [runs EXCEPT ![s] = [pc |-> "checking"]]
    /\ UNCHANGED <<now, lockVars, env, report, events, results, auditLog, securityLog>>
    /\ UNCHANGED <<fraudVars, auditVars, rate>>

\* Promise.all settles; the call tallies, builds the event and waits on
\* SecurityAuditLog.create.  A rejection ends the call without a summary.
ChecksSettle(s, c) ==
    /\ runs[s].pc = "checking"
    /\ LET all == PromiseAll(CheckPromises(env, c))
       IN  runs' = [runs EXCEPT ![s] =
               IF all.status = "rejected"
               THEN [pc |-> "rejected", cond |-> c, reason |-> all.reason]
               ELSE [pc |-> "logging", cond |-> c, checks |-> all.value,
                     eventData |-> EventData(all.value, now)]]
    /\ UNCHANGED <<now, lockVars, env, report, events, results, auditLog, securityLog>>
    /\ UNCHANGED <<fraudVars, auditVars, rate>>

\* the rest of the call once nothing is left to wait for: the summary is
\* stored under Date.now() and returned
Finish(run, t) ==
    [pc |-> "done", cond |-> run.cond, summary |-> Summary(run.checks, t)]

\* SecurityAuditLog.create settles (stored = FALSE: it threw, and the catch
\* logged it); the tail is pushed and trimmed; with failures alert() is
\* called and waits on logSecurityEvent, otherwise the call finishes
LogSettle(s, stored) ==
    /\ runs[s].pc = "logging"
    /\ LET run == runs[s]
           y == Tally(run.checks)
       IN  /\ securityLog' = IF stored
                             THEN Append(securityLog, StoredCheckEvent(run.eventData))
                             ELSE securityLog
           /\ auditLog' = PushTail(auditLog, TailEntry(run.eventData))
           /\ IF Len(y.failed) > 0
              THEN /\ runs' = [runs EXCEPT ![s] =
                         [pc |-> "alerting", cond |-> run.cond,
                          checks |-> run.checks,
                          alert |-> SecurityEventData(AlertEvent(y.failed, now), now)]]
                   /\ UNCHANGED results
              ELSE /\ runs' = [runs EXCEPT ![s] = Finish(run, now)]
                   /\ results' = MapSet(results, now, Summary(run.checks, now))
    /\ UNCHANGED <<now, lockVars, env, report, events>>
    /\ UNCHANGED <<fraudVars, auditVars, rate>>

\* logSecurityEvent's create settles and alert() returns what it returned;
\* the call, which awaits alert() outside any try/catch, finishes, or rejects
\* if alert() rejected
AlertSettle(s, stored) ==
    /\ runs[s].pc = "alerting"
    /\ LET run == runs[s]
           called == run.alert.timestamp
           sent == logSecurityEvent(AlertEvent(run.alert.details.failedChecks, called),
                                    called, stored)
       IN  IF sent.status = "rejected"
           THEN /\ runs' = [runs EXCEPT ![s] =
                      [pc |-> "rejected", cond |-> run.cond, reason |-> sent.reason]]
                /\ UNCHANGED <<securityLog, results>>
           ELSE /\ securityLog' = IF stored THEN Append(securityLog, sent.value)
                                            ELSE securityLog
                /\ runs' = [runs EXCEPT ![s] = Finish(run, now)]
                /\ results' = MapSet(results, now, Summary(run.checks, now))
    /\ UNCHANGED <<now, lockVars, env, report, events, auditLog>>
    /\ UNCHANGED <<fraudVars, auditVars, rate>>

MonTick(d) ==
    /\ now + d <= MaxMonNow
    /\ now' = now + d
    /\ UNCHANGED <<lockVars, monVars>>
    /\ UNCHANGED <<fraudVars, auditVars, rate>>

\* the ms table of generateReport, in seconds; an unknown period counts as 24h
PeriodSeconds(period) ==
    CASE period = "1h" -> 3600
      [] period = "24h" -> 86400
      [] period = "7d" -> 604800
      [] period = "30d" -> 2592000
      [] OTHER -> 86400

\* the keys of a Map in insertion order; results is keyed by the clock, which
\* never runs backwards
RECURSIVE KeysInOrder(_)
KeysInOrder(S) ==
    IF S = {} THEN << >>
    ELSE LET k == CHOOSE x \in S : \A y \in S : x <= y
         IN  <<k>> \o KeysInOrder(S \ {k})

\* Array.prototype.reduce((s, r) => s + r[field], 0)
RECURSIVE SumField(_, _)
SumField(q, field) == IF q = << >> THEN 0 ELSE Head(q)[field] + SumField(Tail(q), field)

\* ((passed / total) * 100).toFixed(2), in hundredths of a percent
AveragePassRate(passed, total) == (passed * 20000 + total) \div (2 * total)

\* mutant: the window's start is excluded
generateReport_OpenStart(res, period, t) ==
    LET start == t - PeriodSeconds(period)
        keys == KeysInOrder({ k \in DOMAIN res : k > start })
        rs == [i \in DOMAIN keys |-> res[keys[i]]]
        failed == SumField(rs, "failed")
    IN  IF rs = << >>
        THEN [period |-> period, message |-> "No checks run", timestamp |-> t]
        ELSE [period |-> period, startTime |-> start, endTime |-> t,
              totalRuns |-> Len(rs), totalChecks |-> SumField(rs, "totalChecks"),
              totalPassed |-> SumField(rs, "passed"), totalFailed |-> failed,
              averagePassRate |-> AveragePassRate(SumField(rs, "passed"),
                                                  SumField(rs, "totalChecks")),
              complianceStatus |-> IF failed = 0 THEN "COMPLIANT" ELSE "NON-COMPLIANT",
              results |-> rs]

\* generateReport(period) over the Map res at clock reading t
generateReport(res, period, t) ==
    LET start == t - PeriodSeconds(period)
        keys == KeysInOrder({ k \in DOMAIN res : k >= start })
        rs == [i \in DOMAIN keys |-> res[keys[i]]]
        total == SumField(rs, "totalChecks")
        passed == SumField(rs, "passed")
        failed == SumField(rs, "failed")
    IN  IF Len(rs) = 0
        THEN [period |-> period, message |-> "No checks run", timestamp |-> t]
        ELSE [period |-> period, startTime |-> start, endTime |-> t,
              totalRuns |-> Len(rs), totalChecks |-> total,
              totalPassed |-> passed, totalFailed |-> failed,
              averagePassRate |-> AveragePassRate(passed, total),
              complianceStatus |-> IF failed = 0 THEN "COMPLIANT" ELSE "NON-COMPLIANT",
              results |-> rs]

\* the period of a report request; "1y" is not in the ms table
Periods == { "1h", "24h", "7d", "30d", "1y" }

GenerateReport(period) ==
    /\ report' = generateReport(results, period, now)
    /\ UNCHANGED <<now, lockVars, env, events, runs, results, auditLog, securityLog>>
    /\ UNCHANGED <<fraudVars, auditVars, rate>>

MaxReportNow == 3601

ReportTicks == { 3600, 3601 }

ReportTick(d) ==
    /\ now + d <= MaxReportNow
    /\ now' = now + d
    /\ UNCHANGED <<lockVars, monVars>>
    /\ UNCHANGED <<fraudVars, auditVars, rate>>

\* the monitor with one run at a time, and report requests
ReportNext ==
    \/ StartRun(1)
    \/ \E c \in Conditions : ChecksSettle(1, c)
    \/ \E stored \in BOOLEAN : LogSettle(1, stored)
    \/ \E stored \in BOOLEAN : AlertSettle(1, stored)
    \/ \E period \in Periods : GenerateReport(period)
    \/ \E d \in ReportTicks : ReportTick(d)

MonNext ==
    \/ \E s \in Slots : StartRun(s)
    \/ \E s \in Slots, c \in Conditions : ChecksSettle(s, c)
    \/ \E s \in Slots, stored \in BOOLEAN : LogSettle(s, stored)
    \/ \E s \in Slots, stored \in BOOLEAN : AlertSettle(s, stored)
    \/ \E d \in MonTicks : MonTick(d)

(***************************************************************************)
(* The monitor over a long uptime: the interval timer of startMonitoring   *)
(* and POST /test-event of the compliance routes                           *)
(***************************************************************************)
\* schedule.continuous, in seconds
ScheduleContinuous == 60

MaxHistoryRuns == 1030    \* runs of the monitor since startMonitoring
MaxTestEvents == 1        \* requests to POST /test-event

\* the runs already completed when the model starts observing
RunsBefore == TailMax - 1

\* the database is up and the audit collection holds documents
UpCondition ==
    [importThrows |-> FALSE, readyState |-> 1, queryThrows |-> FALSE,
     logThrows |-> FALSE, recent |-> 0, total |-> 10]

\* the moment of the i-th run: the first is immediate, the others follow
\* the interval timer
RunAt(i) == (i - 1) * ScheduleContinuous

\* the results of the seven checks of a run of the deployed configuration
UpChecks(ev) == PromiseAll(CheckPromises(ev, UpCondition)).value

\* the state n timer-driven runs of runContinuousChecks leave behind when
\* every check passes and every create succeeds, n <= TailMax
AfterRuns(ev, n) ==
    [results |-> [k \in { RunAt(i) : i \in 1..n } |-> Summary(UpChecks(ev), k)],
     auditLog |-> [i \in 1..n |-> TailEntry(EventData(UpChecks(ev), RunAt(i)))],
     securityLog |-> [i \in 1..n |->
                         StoredCheckEvent(EventData(UpChecks(ev), RunAt(i)))],
     run |-> [pc |-> "done", cond |-> UpCondition,
              summary |-> Summary(UpChecks(ev), RunAt(n))],
     now |-> RunAt(n)]

\* the requests to POST /test-event counted on the tail
IsTestEntry(x) == x.message[1] = "Test"

TestEvents == Cardinality({ i \in DOMAIN auditLog : IsTestEntry(auditLog[i]) })

\* the body of POST /test-event; "" is a body without eventType
EventTypes == { "", "SECURITY" }

\* the document the route builds for eventType SECURITY
TestSecurityEvent(t) ==
    [eventCategory |-> "SECURITY", action |-> "TEST_SECURITY_EVENT",
     result |-> "SUCCESS", severity |-> "LOW", userId |-> "admin",
     timestamp |-> t, metadata |-> [test |-> TRUE]]

\* the entry the route pushes on the monitor's tail
TestTailEntry(ev, eventType) ==
    [timestamp |-> ev.timestamp, type |-> ev.eventCategory, category |-> ev.action,
     message |-> <<"Test", eventType, "event">>,
     severity |-> ev.severity, status |-> ev.result, details |-> ev.metadata]

\* the interval timer fires: schedule.continuous after the previous firing
\* runContinuousChecks is called
TimerRun(s) ==
    /\ ~Active(s)
    /\ Cardinality(DOMAIN results) < MaxHistoryRuns
    /\ now' = now + ScheduleContinuous
    /\ runs' = [runs EXCEPT ![s] = [pc |-> "checking"]]
    /\ UNCHANGED <<lockVars, env, report, events, results, auditLog, securityLog>>
    /\ UNCHANGED <<fraudVars, auditVars, rate>>

\* POST /test-event: the document is created in its collection and an entry
\* is pushed on complianceMonitor.auditLog; when create throws the route
\* answers 500 and pushes nothing
TestEvent(body, created) ==
    /\ TestEvents < MaxTestEvents
    /\ LET eventType == IF body = "" THEN "SECURITY" ELSE body
           testEvent == TestSecurityEvent(now)
       IN  IF created
           THEN /\ securityLog' = Append(securityLog, StoredCheckEvent(testEvent))
                /\ auditLog' = Append(auditLog, TestTailEntry(testEvent, eventType))
           ELSE UNCHANGED <<securityLog, auditLog>>
    /\ UNCHANGED <<now, lockVars, env, report, events, runs, results>>
    /\ UNCHANGED <<fraudVars, auditVars, rate>>

\* the monitor of a server that stays up and healthy, and the test-event route
HistoryNext ==
    \/ TimerRun(1)
    \/ ChecksSettle(1, UpCondition)
    \/ LogSettle(1, TRUE)
    \/ \E body \in EventTypes, created \in BOOLEAN : TestEvent(body, created)

(***************************************************************************)
(* Properties of the compliance monitor                                    *)
(***************************************************************************)
\* the number of checks runContinuousChecks registers
RegisteredChecks == 7

\* the summaries the calls have returned and the ones the history holds
ReturnedSummaries ==
    { runs[s].summary : s \in { x \in Slots : runs[x].pc = "done" } }
    \cup { results[t] : t \in DOMAIN results }

\* C7: every run of runContinuousChecks over the N = 7 registered checks
\* returns a summary with passed + failed = totalChecks = N, whatever subset
\* of the checks fails.
C7_SummaryTotals ==
    \A m \in ReturnedSummaries :
        /\ m.totalChecks = RegisteredChecks
        /\ m.passed + m.failed = m.totalChecks
        /\ Len(m.details) = RegisteredChecks
        /\ m.passed >= 0 /\ m.failed >= 0

\* C7 witness: a run has returned a summary with four failed checks of seven
C7_Witness ==
    \E s \in Slots :
        /\ runs[s].pc = "done"
        /\ runs[s].summary.failed = 4 /\ runs[s].summary.passed = 3
        /\ runs[s].summary \in { results[t] : t \in DOMAIN results }

CheckNames ==
    << "Authentication Controls", "Encryption Controls", "Database Connectivity",
       "Access Log Controls", "Rate Limiting Controls", "CORS Configuration",
       "Token Expiration Policy" >>

\* C8: a check whose work throws during a run is reported in the run's
\* results as passed:false with a non-empty issues list, the other checks'
\* results are reported with it, and the call does not fail: it goes on to
\* return its summary.
C8_ThrowingCheckReported ==
    \A s \in Slots :
        /\ runs[s].pc # "rejected"
        /\ runs[s].pc \in {"logging", "alerting"} =>
              [i \in DOMAIN runs[s].checks |-> runs[s].checks[i].name] = CheckNames
        /\ runs[s].pc = "done" =>
              LET c == runs[s].cond
                  d == runs[s].summary.details
              IN  /\ [i \in DOMAIN d |-> d[i].name] = CheckNames
                  /\ (c.importThrows \/ c.queryThrows) =>
                         (~d[3].passed /\ Len(d[3].issues) > 0)
                  /\ c.logThrows => (~d[4].passed /\ Len(d[4].issues) > 0)
                  /\ runs[s].summary.failed >=
                         (IF c.importThrows \/ c.queryThrows THEN 1 ELSE 0)
                         + (IF c.logThrows THEN 1 ELSE 0)

\* C8 witness: a run in which the database query and the log count both
\* threw has returned its summary
C8_Witness ==
    \E s \in Slots :
        /\ runs[s].pc = "done"
        /\ runs[s].cond.queryThrows /\ runs[s].cond.logThrows
        /\ ~runs[s].summary.details[3].passed
        /\ ~runs[s].summary.details[4].passed
        /\ runs[s].summary.details[2].passed

(***************************************************************************)
(* FraudDetectionSystem                                                    *)
(***************************************************************************)
HIGH_VALUE == 1000
VELOCITY == 5
VelocityWindow == 600
VelocityWeight == 30
HighValueWeight == 20
DuplicateWeight == 25
SuspiciousIPWeight == 40
BlockAbove == 50
ReviewAbove == 30

\* the transactions handed to analyzeTransaction
Txs ==
    { [id |-> "t1", userId |-> "u1", amount |-> 1500, ip |-> <<8, 8, 8, 8>>],
      [id |-> "t2", userId |-> "u1", amount |-> 1000, ip |-> <<172, 16, 0, 1>>],
      [id |-> "t3", userId |-> "u1", amount |-> 1001, ip |-> <<10, 0, 0, 5>>],
      [id |-> "t5", userId |-> "u2", amount |-> 1500, ip |-> <<192, 168, 1, 1>>] }

\* the rows other handlers add to the transaction collection
NewRows == { [userId |-> "u1", amount |-> 1500] }

FraudTicks == { 600, 601 }

Reverse(q) == [i \in DOMAIN q |-> q[Len(q) + 1 - i]]

\* Transaction.find({userId, createdAt: {$gte: now - ms}}).sort({createdAt: -1})
RecentRows(rows, userId, ms, t) ==
    LET Hit(r) == r.userId = userId /\ r.createdAt >= t - ms
    IN  Reverse(SelectSeq(rows, Hit))

\* the module binds chalk, mongoose and crypto by import and declares its
\* six models; it never binds the name Transaction, so evaluating it throws
\* a ReferenceError
TransactionDeclared == FALSE

\* mutant: a lookup that succeeds and ignores the trailing window
getRecentTransactions_AllTime(rows, userId, ms, t) == RecentRows(rows, userId, t, t)

\* getRecentTransactions: the lookup inside try, [] from the catch
getRecentTransactions(rows, userId, ms, t) ==
    IF TransactionDeclared THEN RecentRows(rows, userId, ms, t) ELSE << >>

\* the three patterns of checkIPReputation, on a dotted quad
checkIPReputation(ip) ==
    LET isProxy == \/ ip[1] = 10
                   \/ ip[1] = 192 /\ ip[2] = 168
                   \/ ip[1] = 172 /\ ip[2] \in 16..31
    IN  [ip |-> ip, isProxy |-> isProxy, isTor |-> FALSE, isVPN |-> FALSE,
         riskScore |-> IF isProxy THEN 20 ELSE 0]

\* the rules in the order the code applies them: [hit, weight, flag]
Rules(t, recent) ==
    LET SameAmount(r) == r.amount = t.amount
        rep == checkIPReputation(t.ip)
    IN  << [hit |-> Len(recent) >= VELOCITY, weight |-> VelocityWeight,
            flag |-> "HIGH_VELOCITY"],
           [hit |-> t.amount > HIGH_VALUE, weight |-> HighValueWeight,
            flag |-> "HIGH_VALUE"],
           [hit |-> Len(SelectSeq(recent, SameAmount)) > 0, weight |-> DuplicateWeight,
            flag |-> "DUPLICATE"],
           [hit |-> rep.isProxy \/ rep.isTor, weight |-> SuspiciousIPWeight,
            flag |-> "SUSPICIOUS_IP"] >>

IsHit(rule) == rule.hit

RECURSIVE SumWeights(_)
SumWeights(q) == IF q = << >> THEN 0 ELSE Head(q).weight + SumWeights(Tail(q))

\* mutant: a score of exactly 50 blocks
Decision_AtLeast(score) == IF score >= BlockAbove THEN "BLOCKED" ELSE "APPROVED"

Decision(score) == IF score > BlockAbove THEN "BLOCKED" ELSE "APPROVED"

\* mutant: every score above 30 asks for a manual review
RequiresManualReview_Above(score) == score > ReviewAbove

RequiresManualReview(score) == score > ReviewAbove /\ score <= BlockAbove

\* what analyzeTransaction returns for t, given the history it looked up
Assess(t, recent) ==
    LET hits == SelectSeq(Rules(t, recent), IsHit)
        score == SumWeights(hits)
    IN  [approved |-> score <= BlockAbove, riskScore |-> score,
         flags |-> [i \in DOMAIN hits |-> hits[i].flag],
         requiresManualReview |-> RequiresManualReview(score),
         decision |-> Decision(score)]

\* the FRAUD_CHECK event analyzeTransaction logs
FraudEvent(t, a) ==
    [userId |-> t.userId, action |-> "FRAUD_CHECK", resource |-> "TRANSACTION",
     result |-> a.decision, ip |-> t.ip,
     severity |-> IF a.decision = "BLOCKED" THEN "CRITICAL" ELSE "INFO",
     details |-> [transactionId |-> t.id, score |-> a.riskScore, flags |-> a.flags,
                  review |-> a.requiresManualReview]]

\* no earlier call remembered
NoEarlier == [amount |-> -1]

\* the declared inputs of a call (amount, the amounts of the identity's
\* transactions of the trailing window, source address) and what it returned
CallRecord(call) ==
    [amount |-> call.t.amount, ip |-> call.t.ip,
     recent |-> [i \in DOMAIN call.window |-> call.window[i].amount],
     riskScore |-> call.result.riskScore, decision |-> call.result.decision]

FraudInit ==
    /\ transactions = << >>
    /\ fraudCall = [pc |-> "idle"]
    /\ earlier = NoEarlier

\* another handler stores a transaction
AddTransaction(row) ==
    /\ Len(transactions) < MaxTransactions
    /\ transactions' = Append(transactions,
                              [userId |-> row.userId, amount |-> row.amount, createdAt |-> now])
    /\ UNCHANGED <<now, lockVars, monVars, fraudCall, earlier>>
    /\ UNCHANGED <<auditVars, rate>>

\* analyzeTransaction(t) up to its last await: the history lookup, the
\* scoring and the decision; the call then waits on logSecurityEvent.
\* window: the rows of the collection the lookup asks for (observer)
AnalyzeTransaction(t) ==
    /\ fraudCall.pc # "logging"
    /\ LET result == Assess(t, getRecentTransactions(transactions, t.userId,
                                                     VelocityWindow, now))
       IN  fraudCall' = [pc |-> "logging", t |-> t,
                         window |-> RecentRows(transactions, t.userId, VelocityWindow, now),
                         result |-> result,
                         emitted |-> << FraudEvent(t, result) >>]
    /\ UNCHANGED <<now, lockVars, monVars, transactions, earlier>>
    /\ UNCHANGED <<auditVars, rate>>

\* logSecurityEvent settles (stored = FALSE: SecurityAuditLog.create threw);
\* analyzeTransaction returns its result, or throws if the await rejected.
\* keep: the observer remembers this call if it remembers none yet
AnalyzeReturn(stored, keep) ==
    /\ fraudCall.pc = "logging"
    /\ stored => Len(securityLog) < MaxFraudEvents
    /\ LET logged == logSecurityEvent(fraudCall.emitted[1], now, stored)
       IN  /\ securityLog' = IF stored
                             THEN Append(securityLog,
                                         SecurityEventData(fraudCall.emitted[1], now))
                             ELSE securityLog
           /\ fraudCall' = [fraudCall EXCEPT
                               !.pc = IF logged.status = "rejected" THEN "threw" ELSE "done"]
    /\ earlier' = IF keep /\ earlier = NoEarlier THEN CallRecord(fraudCall) ELSE earlier
    /\ UNCHANGED <<now, lockVars, env, report, events, runs, results, auditLog, transactions>>
    /\ UNCHANGED <<auditVars, rate>>

FraudTick(d) ==
    /\ now + d <= MaxFraudNow
    /\ now' = now + d
    /\ UNCHANGED <<lockVars, monVars, fraudVars>>
    /\ UNCHANGED <<auditVars, rate>>

FraudNext ==
    \/ \E row \in NewRows : AddTransaction(row)
    \/ \E t \in Txs : AnalyzeTransaction(t)
    \/ \E stored \in BOOLEAN, keep \in BOOLEAN : AnalyzeReturn(stored, keep)
    \/ \E d \in FraudTicks : FraudTick(d)

(***************************************************************************)
(* Properties of the fraud scorer                                          *)
(***************************************************************************)
\* the flags the rules of the contract raise for t over the history h, as a
\* set, and the sum of their weights
ClaimedFlags(t, h) ==
    (IF Len(h) >= 5 THEN {"HIGH_VELOCITY"} ELSE {})
    \cup (IF t.amount > 1000 THEN {"HIGH_VALUE"} ELSE {})
    \cup (IF \E i \in DOMAIN h : h[i].amount = t.amount THEN {"DUPLICATE"} ELSE {})
    \cup (IF checkIPReputation(t.ip).isProxy THEN {"SUSPICIOUS_IP"} ELSE {})

ClaimedScore(t, h) ==
    (IF Len(h) >= 5 THEN 30 ELSE 0) + (IF t.amount > 1000 THEN 20 ELSE 0)
    + (IF \E i \in DOMAIN h : h[i].amount = t.amount THEN 25 ELSE 0)
    + (IF checkIPReputation(t.ip).isProxy THEN 40 ELSE 0)

SeqToSet(q) == { q[i] : i \in DOMAIN q }

\* C9 (as claimed): analyzeTransaction returns the sum of the weights of
\* exactly the rules that hit over the identity's transactions of the
\* trailing 10 minutes, and exactly those rules' names as flags.
C9_ScoreIsSumOfHits ==
    fraudCall.pc \in {"logging", "done"} =>
        /\ fraudCall.result.riskScore = ClaimedScore(fraudCall.t, fraudCall.window)
        /\ SeqToSet(fraudCall.result.flags) = ClaimedFlags(fraudCall.t, fraudCall.window)

\* the scores the four weights can add up to
PossibleScores ==
    { SumWeights(SelectSeq(Rules([amount |-> a, ip |-> ip], h), IsHit)) :
        a \in {1000, 1500}, ip \in {<<8, 8, 8, 8>>, <<10, 0, 0, 5>>},
        h \in { << >>, << [amount |-> 1500] >>,
                [i \in 1..VELOCITY |-> [amount |-> 1500]],
                [i \in 1..VELOCITY |-> [amount |-> 700]] } }

\* C10: the decision is BLOCKED iff the score exceeds 50 and APPROVED
\* otherwise (50 itself is APPROVED); requiresManualReview is true iff
\* 30 < score <= 50 (false at 30, true at 50).  Stated of every result
\* analyzeTransaction returns and of every score the weights can reach.
C10_DecisionThresholds ==
    /\ fraudCall.pc \in {"logging", "done"} =>
          LET r == fraudCall.result
          IN  /\ r.decision = (IF r.riskScore > 50 THEN "BLOCKED" ELSE "APPROVED")
              /\ r.requiresManualReview <=> (30 < r.riskScore /\ r.riskScore <= 50)
    /\ \A sc \in PossibleScores :
          /\ Decision(sc) = (IF sc > 50 THEN "BLOCKED" ELSE "APPROVED")
          /\ RequiresManualReview(sc) <=> (30 < sc /\ sc <= 50)
    /\ {30, 50} \subseteq PossibleScores

\* C10 witness: a returned result in the review band, approved
C10_Witness ==
    /\ fraudCall.pc = "done"
    /\ fraudCall.result.riskScore = 40
    /\ fraudCall.result.requiresManualReview
    /\ fraudCall.result.decision = "APPROVED"

\* the results of analyzeTransaction for the combinations of rule hits
PossibleResults ==
    { Assess([amount |-> a, ip |-> ip], h) :
        a \in {500, 1000, 1001, 1500},
        ip \in {<<8, 8, 8, 8>>, <<10, 0, 0, 5>>, <<172, 16, 0, 1>>, <<172, 32, 0, 1>>,
                <<192, 168, 1, 1>>},
        h \in { << >>, << [amount |-> 1500] >>,
                [i \in 1..VELOCITY |-> [amount |-> 1500]],
                [i \in 1..VELOCITY |-> [amount |-> 700]] } }

ConsistentResult(r) ==
    /\ r.approved = (r.decision = "APPROVED")
    /\ ~(r.requiresManualReview /\ r.decision = "BLOCKED")
    /\ r.decision = "BLOCKED" => Len(r.flags) >= 2

EveryResultConsistent == \A r \in PossibleResults : ConsistentResult(r)

\* no single rule weighs more than the blocking threshold
NoRuleBlocksAlone ==
    \A t \in Txs : \A i \in DOMAIN Rules(t, << >>) : Rules(t, << >>)[i].weight <= 50

\* C30: in every result of analyzeTransaction approved is true iff the
\* decision is APPROVED, requiresManualReview and BLOCKED never come
\* together, and a BLOCKED decision has at least two rule hits, no single
\* rule weighing more than 50.  Stated of every returned result and of the
\* result of every combination of rule hits.
C30_ResultConsistent ==
    /\ fraudCall.pc \in {"logging", "done"} => ConsistentResult(fraudCall.result)
    /\ EveryResultConsistent
    /\ NoRuleBlocksAlone

\* C30 witness: a returned result that is BLOCKED on two rule hits
C30_Witness ==
    /\ fraudCall.pc = "done"
    /\ fraudCall.result.decision = "BLOCKED"
    /\ ~fraudCall.result.approved
    /\ ~fraudCall.result.requiresManualReview
    /\ Len(fraudCall.result.flags) = 2

\* C11: every analyzeTransaction call emits exactly one audit event, with
\* action FRAUD_CHECK, severity CRITICAL iff the decision is BLOCKED and INFO
\* otherwise, carrying the score and the flags; the call never throws, and
\* returns its assessment whether or not the audit write succeeded.
C11_OneFraudCheckEvent ==
    /\ fraudCall.pc # "threw"
    /\ fraudCall.pc \in {"logging", "done"} =>
          LET r == fraudCall.result
              ev == fraudCall.emitted
          IN  /\ Len(ev) = 1
              /\ ev[1].action = "FRAUD_CHECK"
              /\ ev[1].severity = (IF r.decision = "BLOCKED" THEN "CRITICAL" ELSE "INFO")
              /\ ev[1].details.score = r.riskScore
              /\ ev[1].details.flags = r.flags
              /\ r.decision \in {"BLOCKED", "APPROVED"}

\* C11 witness: a call that returned BLOCKED although the audit write failed
\* and the history held transactions
C11_Witness ==
    /\ fraudCall.pc = "done"
    /\ fraudCall.result.decision = "BLOCKED"
    /\ fraudCall.emitted[1].severity = "CRITICAL"
    /\ securityLog = << >>
    /\ transactions # << >>

\* the current call has the declared inputs of the remembered one
SameInputs ==
    /\ fraudCall.pc \in {"logging", "done"}
    /\ earlier # NoEarlier
    /\ earlier.amount = fraudCall.t.amount
    /\ earlier.ip = fraudCall.t.ip
    /\ earlier.recent = CallRecord(fraudCall).recent

\* C12: two analyzeTransaction calls with identical amount, recent
\* transactions and source address return the same riskScore and decision,
\* whatever else differs between them.
C12_Deterministic ==
    SameInputs => /\ fraudCall.result.riskScore = earlier.riskScore
                  /\ fraudCall.result.decision = earlier.decision

\* C12 witness: a second call with the inputs of an earlier one, made at a
\* later time, with older transactions in the collection and another audit
\* store
C12_Witness ==
    /\ SameInputs
    /\ fraudCall.pc = "done"
    /\ now > 0
    /\ Len(transactions) > Len(fraudCall.window)
    /\ securityLog # << >>

(***************************************************************************)
(* Audit stores: auditLogger, the TTL indexes and POST /sync-financial-logs *)
(***************************************************************************)
MaxAuditDocs == 2
MaxAuditNow == 15552000

\* expireAfterSeconds of the four TTL indexes
FinancialRetention == 220752000
SecurityRetention == 7776000
ConfidentialRetention == 7776000
PrivacyRetention == 220752000

\* logConfidentialAccess: 300000 ms, recent.length > 10
SuspiciousWindow == 300
SuspiciousAbove == 10

AuditTicks == { 7776000 }

PaymentIds == { "pi_1" }

\* arguments of the auditLogger methods; "" is an absent (falsy) field
FinancialInputs ==
    { [id |-> "pi_1", userId |-> "u1", amount |-> 1500, currency |-> "",
       type |-> "PAYMENT", status |-> "PENDING"],
      [id |-> "pi_2", userId |-> "u2", amount |-> 500, currency |-> "EUR",
       type |-> "PAYMENT", status |-> "PENDING"] }

SecurityInputs ==
    { [userId |-> "u1", action |-> "LOGIN", resource |-> "AUTH", result |-> "FAILURE",
       ip |-> <<8, 8, 8, 8>>, severity |-> "", details |-> << >>] }

UnauthorizedInputs ==
    { [ip |-> <<8, 8, 8, 8>>, path |-> "/admin", method |-> "GET", reason |-> "NO_TOKEN"] }

ConfidentialInputs ==
    { [userId |-> "u1", action |-> "READ", dataType |-> "ORDER", dataId |-> "o1",
       classification |-> c, ip |-> <<8, 8, 8, 8>>, result |-> "SUCCESS"] :
      c \in {"RESTRICTED", "INTERNAL"} }

PrivacyInputs ==
    { [type |-> ty, userId |-> "u1", details |-> << >>, ip |-> <<8, 8, 8, 8>>] :
      ty \in {"CONSENT_GIVEN", "DATA_EXPORT"} }

\* the user filter of a sync request; "" is a body without userId
SyncFilters == { "", "u2" }

\* the documents the methods build
FinancialData(t, at) ==
    [timestamp |-> at, eventType |-> "FINANCIAL_TRANSACTION", controlId |-> "CC2.1",
     transactionId |-> t.id, userId |-> t.userId, amount |-> t.amount,
     currency |-> IF t.currency = "" THEN "USD" ELSE t.currency,
     type |-> t.type, status |-> t.status]

UnauthorizedData(a, at) ==
    [timestamp |-> at, eventType |-> "UNAUTHORIZED_ACCESS", controlId |-> "CC6.1",
     ipAddress |-> a.ip, action |-> a.path, resource |-> a.method,
     result |-> a.reason, severity |-> "HIGH"]

ConfidentialData(a, at) ==
    [timestamp |-> at, eventType |-> "CONFIDENTIAL_ACCESS", controlId |-> "C1.2",
     userId |-> a.userId, action |-> a.action, dataType |-> a.dataType,
     dataId |-> a.dataId, classification |-> a.classification, ipAddress |-> a.ip,
     result |-> a.result,
     severity |-> IF a.classification = "RESTRICTED" THEN "HIGH" ELSE "MEDIUM"]

\* String.prototype.startsWith('CONSENT') on the event types in use
StartsWithConsent(type) == type \in {"CONSENT_GIVEN", "CONSENT_WITHDRAWN"}

PrivacyData(e, at) ==
    [timestamp |-> at, eventType |-> e.type,
     controlId |-> IF StartsWithConsent(e.type) THEN "P2.1" ELSE "P3.1",
     userId |-> e.userId, details |-> e.details, ipAddress |-> e.ip, severity |-> "INFO"]

\* log(Model, data, ...): Model.create inside try/catch (created = FALSE: it
\* threw), data returned either way
log(data, created) == Fulfilled(data)

\* the collection after Model.create(data)
Created(store, data, created) == IF created THEN Append(store, data) ELSE store

\* ConfidentialAccessLog.find({userId, classification: 'RESTRICTED', timestamp >= ...})
RecentRestricted(store, userId, at) ==
    LET Hit(d) == /\ d.userId = userId
                  /\ d.classification = "RESTRICTED"
                  /\ d.timestamp >= at - SuspiciousWindow
    IN  SelectSeq(store, Hit)

SuspiciousEvent(a, n) ==
    [userId |-> a.userId, action |-> "SUSPICIOUS_ACCESS", resource |-> "CONFIDENTIAL_DATA",
     result |-> "ALERT", ip |-> a.ip, severity |-> "CRITICAL", details |-> [count |-> n]]

\* logConfidentialAccess's promise: the find after the log is awaited outside
\* any try/catch (found = FALSE: it threw)
logConfidentialAccess(a, at, found) ==
    IF a.classification = "RESTRICTED" /\ ~found
    THEN Rejected("find failed")
    ELSE Fulfilled(ConfidentialData(a, at))

\* the sync route's mapping of a payment status to an audit status
AuditStatus(paymentStatus) ==
    IF paymentStatus = "succeeded" THEN "SUCCEEDED"
    ELSE IF paymentStatus = "failed" THEN "FAILED"
    ELSE "PENDING"

NoPayment == "none"

HasPayment(id) == id \in DOMAIN payments /\ payments[id] # NoPayment

\* FinancialAuditLog.find({...query, status: 'PENDING'})
IsPending(d, filter) == d.status = "PENDING" /\ (filter = "" \/ d.userId = filter)

\* one pass of the loop body over a financial log
SyncLog(d, filter, at) ==
    IF /\ IsPending(d, filter)
       /\ HasPayment(d.transactionId)
       /\ AuditStatus(payments[d.transactionId]) # "PENDING"
    THEN [d EXCEPT !.status = AuditStatus(payments[d.transactionId]), !.timestamp = at]
    ELSE d

Expired(d, retention) == d.timestamp + retention <= now

Unexpired(store, retention) ==
    LET Keep(d) == ~Expired(d, retention)
    IN  SelectSeq(store, Keep)

TotalDocs ==
    Len(financialLog) + Len(securityLog) + Len(confidentialLog) + Len(privacyLog)

Room(created) == created => TotalDocs < MaxAuditDocs

AuditInit ==
    /\ financialLog = << >>
    /\ confidentialLog = << >>
    /\ privacyLog = << >>
    /\ payments = [id \in PaymentIds |-> NoPayment]
    /\ auditCall = [name |-> "none"]

otherVars == <<lockVars, env, report, events, runs, results, auditLog, fraudVars, rate>>

LogFinancialTransaction(t, created) ==
    /\ Room(created)
    /\ financialLog' = Created(financialLog, FinancialData(t, now), created)
    /\ auditCall' = [name |-> "logFinancialTransaction",
                     outcome |-> log(FinancialData(t, now), created)]
    /\ UNCHANGED <<now, otherVars, securityLog, confidentialLog, privacyLog, payments>>

LogSecurityEvent(e, created) ==
    /\ Room(created)
    /\ securityLog' = Created(securityLog, SecurityEventData(e, now), created)
    /\ auditCall' = [name |-> "logSecurityEvent",
                     outcome |-> logSecurityEvent(e, now, created)]
    /\ UNCHANGED <<now, otherVars, financialLog, confidentialLog, privacyLog, payments>>

LogUnauthorizedAccess(a, created) ==
    /\ Room(created)
    /\ securityLog' = Created(securityLog, UnauthorizedData(a, now), created)
    /\ auditCall' = [name |-> "logUnauthorizedAccess",
                     outcome |-> log(UnauthorizedData(a, now), created)]
    /\ UNCHANGED <<now, otherVars, financialLog, confidentialLog, privacyLog, payments>>

\* logConfidentialAccess(a): the log, then for RESTRICTED data the count of
\* recent accesses and, above the threshold, a SUSPICIOUS_ACCESS event
LogConfidentialAccess(a, created, found, alerted) ==
    /\ Room(created)
    /\ LET store == Created(confidentialLog, ConfidentialData(a, now), created)
           recent == RecentRestricted(store, a.userId, now)
           suspicious == /\ a.classification = "RESTRICTED"
                         /\ found
                         /\ Len(recent) > SuspiciousAbove
       IN  /\ confidentialLog' = store
           /\ securityLog' = IF suspicious
                             THEN Created(securityLog,
                                          SecurityEventData(SuspiciousEvent(a, Len(recent)), now),
                                          alerted)
                             ELSE securityLog
    /\ auditCall' = [name |-> "logConfidentialAccess",
                     outcome |-> logConfidentialAccess(a, now, found)]
    /\ UNCHANGED <<now, otherVars, financialLog, privacyLog, payments>>

LogPrivacyEvent(e, created) ==
    /\ Room(created)
    /\ privacyLog' = Created(privacyLog, PrivacyData(e, now), created)
    /\ auditCall' = [name |-> "logPrivacyEvent", outcome |-> log(PrivacyData(e, now), created)]
    /\ UNCHANGED <<now, otherVars, financialLog, securityLog, confidentialLog, payments>>

\* the payment routes: a payment is saved as pending, later set to completed,
\* failed or refunded
CreatePayment(id) ==
    /\ payments[id] = NoPayment
    /\ payments' = [payments EXCEPT ![id] = "pending"]
    /\ UNCHANGED <<now, otherVars, financialLog, securityLog, confidentialLog, privacyLog,
                   auditCall>>

UpdatePayment(id, status) ==
    /\ payments[id] # NoPayment
    /\ payments' = [payments EXCEPT ![id] = status]
    /\ UNCHANGED <<now, otherVars, financialLog, securityLog, confidentialLog, privacyLog,
                   auditCall>>

\* POST /sync-financial-logs: every pending log whose payment has succeeded
\* or failed is updated in place
SyncFinancialLogs(filter) ==
    /\ LET Pending(d) == IsPending(d, filter)
           Changed(d) == SyncLog(d, filter, now) # d
           Missing(d) == IsPending(d, filter) /\ ~HasPayment(d.transactionId)
       IN  auditCall' =
             [name |-> "sync",
              outcome |-> Fulfilled([status |-> 200,
                                     updated |-> Len(SelectSeq(financialLog, Changed)),
                                     failed |-> Len(SelectSeq(financialLog, Missing)),
                                     total |-> Len(SelectSeq(financialLog, Pending))])]
    /\ financialLog' = [i \in DOMAIN financialLog |-> SyncLog(financialLog[i], filter, now)]
    /\ UNCHANGED <<now, otherVars, securityLog, confidentialLog, privacyLog, payments>>

\* the TTL monitor deletes the documents whose timestamp is older than the
\* index's expireAfterSeconds
Expire ==
    /\ \/ Unexpired(financialLog, FinancialRetention) # financialLog
       \/ Unexpired(securityLog, SecurityRetention) # securityLog
       \/ Unexpired(confidentialLog, ConfidentialRetention) # confidentialLog
       \/ Unexpired(privacyLog, PrivacyRetention) # privacyLog
    /\ financialLog' = Unexpired(financialLog, FinancialRetention)
    /\ securityLog' = Unexpired(securityLog, SecurityRetention)
    /\ confidentialLog' = Unexpired(confidentialLog, ConfidentialRetention)
    /\ privacyLog' = Unexpired(privacyLog, PrivacyRetention)
    /\ UNCHANGED <<now, otherVars, payments, auditCall>>

AuditTick(d) ==
    /\ now + d <= MaxAuditNow
    /\ now' = now + d
    /\ auditCall' = [name |-> "none"]
    /\ UNCHANGED <<otherVars, securityLog, financialLog, confidentialLog, privacyLog, payments>>

AuditNext ==
    \/ \E t \in FinancialInputs, created \in BOOLEAN : LogFinancialTransaction(t, created)
    \/ \E e \in SecurityInputs, created \in BOOLEAN : LogSecurityEvent(e, created)
    \/ \E a \in UnauthorizedInputs, created \in BOOLEAN : LogUnauthorizedAccess(a, created)
    \/ \E a \in ConfidentialInputs, created, found, alerted \in BOOLEAN :
           LogConfidentialAccess(a, created, found, alerted)
    \/ \E e \in PrivacyInputs, created \in BOOLEAN : LogPrivacyEvent(e, created)
    \/ \E id \in PaymentIds : CreatePayment(id)
    \/ \E id \in PaymentIds, status \in {"completed", "failed", "refunded"} :
           UpdatePayment(id, status)
    \/ \E filter \in SyncFilters : SyncFinancialLogs(filter)
    \/ Expire
    \/ \E d \in AuditTicks : AuditTick(d)

(***************************************************************************)
(* Properties of the audit stores                                          *)
(***************************************************************************)
\* the number of copies of document d in a collection
Copies(store, d) == Cardinality({ i \in DOMAIN store : store[i] = d })

\* every document of the collection that has not outlived its retention is
\* still there, unchanged, after the step
Kept(store, storeNext, retention) ==
    \A i \in DOMAIN store :
        Expired(store[i], retention) \/ Copies(storeNext, store[i]) >= Copies(store, store[i])

\* C13 (as claimed): no operation updates a field of, or deletes, an existing
\* audit record of any category; records leave a store only through
\* retention expiry.
C13_AuditRecordsImmutable ==
    [][ /\ Kept(financialLog, financialLog', FinancialRetention)
        /\ Kept(securityLog, securityLog', SecurityRetention)
        /\ Kept(confidentialLog, confidentialLog', ConfidentialRetention)
        /\ Kept(privacyLog, privacyLog', PrivacyRetention) ]_vars

\* C14 (as claimed): whatever store operation fails, every auditLogger
\* method returns normally.
C14_StoreFailureNeverPropagates ==
    auditCall.name # "none" => auditCall.outcome.status = "fulfilled"

(***************************************************************************)
(* ComplianceMonitor.getRecentEvents over the four audit collections       *)
(***************************************************************************)
MaxStoreDocs == 2      \* documents of one collection

\* the timestamps of the stored documents
EventStamps == { 1, 2 }

\* the limit argument; find().limit(0) is no limit
Limits == { 0, 1, 2 }

Categories == { "security", "financial", "privacy", "confidential" }

\* the type argument
RecentTypes == Categories \cup { "all", "other" }

\* the categories whose query rejects during a call
Failing == { {}, {"privacy"} }

\* the contents a collection of at most `most` documents can have, its
\* documents built by one method
Stored(make(_), most) ==
    UNION { { [i \in 1..n |-> make(ts[i])] : ts \in [1..n -> EventStamps] } :
            n \in 0..most }

SecurityDoc(t) == SecurityEventData(CHOOSE e \in SecurityInputs : TRUE, t)
FinancialDoc(t) == FinancialData(CHOOSE f \in FinancialInputs : f.id = "pi_1", t)
PrivacyDoc(t) == PrivacyData(CHOOSE e \in PrivacyInputs : e.type = "DATA_EXPORT", t)
ConfidentialDoc(t) ==
    ConfidentialData(CHOOSE a \in ConfidentialInputs : a.classification = "INTERNAL", t)

\* sort by timestamp, most recent first; documents of one timestamp keep
\* their order (Array.prototype.sort is stable)
RECURSIVE SortRecentFirst(_)
SortRecentFirst(q) ==
    IF q = << >> THEN << >>
    ELSE LET h == Head(q)
             rest == SortRecentFirst(Tail(q))
             Newer(d) == d.timestamp > h.timestamp
             NotNewer(d) == d.timestamp <= h.timestamp
         IN  SelectSeq(rest, Newer) \o << h >> \o SelectSeq(rest, NotNewer)

\* Array.prototype.slice(0, n), n >= 0
SliceFirst(q, n) == IF Len(q) > n THEN SubSeq(q, 1, n) ELSE q

\* mutant: the query without its sort
FindRecent_Unsorted(store, limit) ==
    IF limit = 0 THEN store ELSE SliceFirst(store, limit)

\* Model.find({}).sort({ timestamp: -1 }).limit(limit).lean()
FindRecent(store, limit) ==
    IF limit = 0 THEN SortRecentFirst(store)
    ELSE SliceFirst(SortRecentFirst(store), limit)

\* ({ ...e, eventCategory, icon })
Tagged(q, category, icon) ==
    [i \in DOMAIN q |-> [eventCategory |-> category, icon |-> icon] @@ q[i]]

Selected(type, category) == type = "all" \/ type = category

\* getRecentEvents(limit, type) over the collections as they are, failing
\* being the categories whose find rejects
getRecentEvents(limit, type, failing) ==
    LET Part(category, store, tag, icon) ==
            IF Selected(type, category)
            THEN Tagged(FindRecent(store, limit), tag, icon)
            ELSE << >>
        pushed == Part("security", securityLog, "SECURITY", "lock-key")
                  \o Part("financial", financialLog, "FINANCIAL", "money")
                  \o Part("privacy", privacyLog, "PRIVACY", "lock")
                  \o Part("confidential", confidentialLog, "CONFIDENTIAL", "lock-key")
    IN  IF \E c \in failing : Selected(type, c)
        THEN << >>
        ELSE SliceFirst(SortRecentFirst(pushed), limit)

EventsInit ==
    /\ securityLog \in Stored(SecurityDoc, MaxStoreDocs)
    /\ financialLog \in Stored(FinancialDoc, MaxStoreDocs)
    /\ privacyLog \in Stored(PrivacyDoc, 1)
    /\ confidentialLog \in Stored(ConfidentialDoc, 1)

GetRecentEvents(limit, type, failing) ==
    /\ events' = [called |-> TRUE, limit |-> limit, type |-> type, failing |-> failing,
                  result |-> getRecentEvents(limit, type, failing)]
    /\ UNCHANGED <<now, lockVars, env, report, runs, results, auditLog, securityLog>>
    /\ UNCHANGED <<fraudVars, auditVars, rate>>

EventsNext ==
    \E limit \in Limits, type \in RecentTypes, failing \in Failing :
        GetRecentEvents(limit, type, failing)

(***************************************************************************)
(* Rate limiters: the rateLimit({...}) configurations of the source, over   *)
(* the fixed-window counter of express-rate-limit                          *)
(***************************************************************************)
MaxOverCeiling == 2
MaxPastWindow == 1
MaxSecondClient == 2

TooManyRequests == 429

\* mutant: a handler whose response carries no retry-after duration
handler_NoRetryAfter(msg, retry) ==
    [status |-> TooManyRequests, retryAfter |-> 0, message |-> msg]

\* handler(msg, retry): the response of a limiter built with it
handler(msg, retry) == [status |-> TooManyRequests, retryAfter |-> retry, message |-> msg]

\* a limiter's options; windowMs in seconds, retry = 0: no handler option
Limiter(name, windowMs, ceiling, skipSuccessful, skipLocalDev, msg, retry) ==
    [name |-> name, windowMs |-> windowMs, max |-> ceiling,
     skipSuccessfulRequests |-> skipSuccessful, skipLocalDev |-> skipLocalDev,
     message |-> msg, retry |-> retry]

authLimiter ==
    Limiter("authLimiter", 15 * 60, 5, TRUE, FALSE,
            "Too many login attempts. Try again in 15 minutes.", 900)
apiLimiter ==
    Limiter("apiLimiter", 15 * 60, 100, FALSE, FALSE, "", 0)
passwordResetLimiter ==
    Limiter("passwordResetLimiter", 60 * 60, 3, FALSE, FALSE,
            "Too many password reset attempts. Try again in 1 hour.", 3600)
emailLimiter ==
    Limiter("emailLimiter", 60 * 60, 5, FALSE, FALSE,
            "Too many emails sent. Try again later.", 3600)
uploadLimiter ==
    Limiter("uploadLimiter", 60 * 60, 20, FALSE, FALSE, "", 0)
reviewLimiter ==
    Limiter("reviewLimiter", 60 * 60, 10, FALSE, FALSE, "", 0)
\* the limiters index.js builds and mounts
appAuthLimiter ==
    Limiter("index.authLimiter", 15 * 60, 50, FALSE, TRUE,
            "Too many authentication attempts, please try again later", 0)
appApiLimiter ==
    Limiter("index.apiLimiter", 15 * 60, 100, FALSE, FALSE,
            "Too many requests, please try again later", 0)
complianceLimiter ==
    Limiter("complianceLimiter", 1 * 60, 500, FALSE, TRUE,
            "Too many compliance requests, please try again later", 0)

Limiters ==
    { authLimiter, apiLimiter, passwordResetLimiter, emailLimiter, uploadLimiter,
      reviewLimiter, appAuthLimiter, appApiLimiter, complianceLimiter }

\* req.ip of the clients: a remote address and the loopback address
Remote == <<8, 8, 8, 8>>
Localhost == <<127, 0, 0, 1>>
Clients == { Remote, Localhost }

\* skip(req) of the limiters of index.js
skip(cfg, ip, dev) == cfg.skipLocalDev /\ dev /\ ip = Localhost

\* a key without a window
NoWindow == [count |-> 0, resetTime |-> 0]

\* the store's increment(key): a new window when the key has none or its
\* window has expired, one more hit otherwise
increment(w, cfg, t) ==
    IF w = NoWindow \/ t >= w.resetTime
    THEN [count |-> 1, resetTime |-> t + cfg.windowMs]
    ELSE [w EXCEPT !.count = w.count + 1]

\* the store's decrement(key), for a skipped successful request
decrement(w) == IF w.count > 0 THEN [w EXCEPT !.count = w.count - 1] ELSE w

\* the response sent when the ceiling is exceeded: the handler option, or the
\* library's default (statusCode 429, the message, a Retry-After header)
Rejection(cfg) ==
    IF cfg.retry > 0
    THEN handler(cfg.message, cfg.retry)
    ELSE [status |-> TooManyRequests, retryAfter |-> cfg.windowMs, message |-> cfg.message]

RateInit ==
    rate \in { [cfg |-> cfg, dev |-> dev, hits |-> [c \in Clients |-> NoWindow],
                last |-> [client |-> << >>]] :
               cfg \in Limiters, dev \in BOOLEAN }

\* one request of a client through the limiter to the route behind it, which
\* answers with success (200) or failure (401)
Request(c, success) ==
    /\ rate.hits[c].count < (IF c = Remote THEN rate.cfg.max + MaxOverCeiling
                             ELSE MaxSecondClient)
    /\ LET cfg == rate.cfg
           skipped == skip(cfg, c, rate.dev)
           w == increment(rate.hits[c], cfg, now)
           rejected == ~skipped /\ w.count > cfg.max
           response == IF rejected THEN Rejection(cfg)
                       ELSE [status |-> IF success THEN 200 ELSE 401,
                             retryAfter |-> 0, message |-> ""]
           after == IF skipped THEN rate.hits[c]
                    ELSE IF cfg.skipSuccessfulRequests /\ response.status < 400
                    THEN decrement(w)
                    ELSE w
       IN  rate' = [rate EXCEPT !.hits[c] = after,
                                !.last = [client |-> c, skipped |-> skipped,
                                          counted |-> IF skipped THEN 0 ELSE w.count,
                                          response |-> response]]
    /\ UNCHANGED <<now, lockVars, monVars, fraudVars, auditVars>>

\* the clock moves to the last second of the first window, or on by a second
RateTick(d) ==
    /\ now + d >= rate.cfg.windowMs - 1
    /\ now + d <= rate.cfg.windowMs + MaxPastWindow
    /\ now' = now + d
    /\ UNCHANGED <<lockVars, monVars, fraudVars, auditVars, rate>>

RateNext ==
    \/ \E c \in Clients, success \in BOOLEAN : Request(c, success)
    \/ \E d \in {1, rate.cfg.windowMs - 1} : RateTick(d)

(***************************************************************************)
(* The progressive delay of the authentication routes: the slowDown({...}) *)
(* options of the source over the window counter of express-slow-down      *)
(***************************************************************************)
MaxSlowRequests == 6     \* requests of one client counted in one window

\* the delayMs option: () => 1000, in seconds
delayMs(used) == 1

\* the options of authSpeedLimiter; windowMs and maxDelayMs in seconds
authSpeedLimiter ==
    [name |-> "authSpeedLimiter", windowMs |-> 15 * 60, delayAfter |-> 2,
     maxDelayMs |-> 20]

\* the delay injected before a request that is the used-th of its window
SlowDelay(cfg, used) ==
    IF used > cfg.delayAfter
    THEN IF delayMs(used) > cfg.maxDelayMs THEN cfg.maxDelayMs ELSE delayMs(used)
    ELSE 0

SlowInit ==
    rate = [cfg |-> authSpeedLimiter, dev |-> FALSE,
            hits |-> [c \in Clients |-> NoWindow], last |-> [client |-> << >>]]

\* one request of a client through authSpeedLimiter
SlowRequest(c) ==
    /\ rate.hits[c].count < MaxSlowRequests
    /\ LET w == increment(rate.hits[c], rate.cfg, now)
       IN  rate' = [rate EXCEPT !.hits[c] = w,
                                !.last = [client |-> c, used |-> w.count,
                                          delay |-> SlowDelay(rate.cfg, w.count)]]
    /\ UNCHANGED <<now, lockVars, monVars, fraudVars, auditVars>>

SlowNext ==
    \/ \E c \in Clients : SlowRequest(c)
    \/ \E d \in {1, rate.cfg.windowMs - 1} : RateTick(d)

(***************************************************************************)
(* Properties of getRecentEvents                                           *)
(***************************************************************************)
\* the collection of a category
StoreOf(category) ==
    CASE category = "security" -> securityLog
      [] category = "financial" -> financialLog
      [] category = "privacy" -> privacyLog
      [] category = "confidential" -> confidentialLog

\* how many documents of the selected categories carry timestamp t
StoredAt(type, t) ==
    LET RECURSIVE Sum(_)
        Sum(S) == IF S = {} THEN 0
                  ELSE LET c == CHOOSE x \in S : TRUE
                       IN  Cardinality({ i \in DOMAIN StoreOf(c) :
                                           StoreOf(c)[i].timestamp = t }) + Sum(S \ {c})
    IN  Sum({ c \in Categories : Selected(type, c) })

\* how many documents the selected categories hold
StoredIn(type) ==
    LET RECURSIVE Sum(_)
        Sum(S) == IF S = {} THEN 0
                  ELSE LET c == CHOOSE x \in S : TRUE
                       IN  Len(StoreOf(c)) + Sum(S \ {c})
    IN  Sum({ c \in Categories : Selected(type, c) })

ReturnedAt(r, t) == Cardinality({ i \in DOMAIN r : r[i].timestamp = t })

\* C26: getRecentEvents(limit, type) returns at most limit events, most
\* recent first, and they are exactly the limit most recent of all the stored
\* events of the selected categories; if a category's query fails it returns
\* the empty list
C26_MostRecentEvents ==
    events.called =>
        LET r == events.result
            type == events.type
            total == StoredIn(type)
        IN  /\ Len(r) <= events.limit
            /\ \A i, j \in DOMAIN r : i < j => r[i].timestamp >= r[j].timestamp
            /\ IF \E c \in events.failing : Selected(type, c)
               THEN r = << >>
               ELSE /\ Len(r) = IF total < events.limit THEN total ELSE events.limit
                    /\ \A t \in EventStamps :
                          /\ ReturnedAt(r, t) <= StoredAt(type, t)
                          /\ ReturnedAt(r, t) < StoredAt(type, t) =>
                                \A i \in DOMAIN r : r[i].timestamp >= t

\* a call for all categories with limit 1 has returned the financial event,
\* the most recent of all, while two collections hold more than one document
C26_Witness ==
    /\ events.called
    /\ events.limit = 1 /\ events.type = "all" /\ events.failing = {}
    /\ Len(securityLog) = 2 /\ Len(financialLog) = 2
    /\ securityLog[1].timestamp = 1 /\ securityLog[2].timestamp = 1
    /\ financialLog[1].timestamp = 1 /\ financialLog[2].timestamp = 2
    /\ Len(events.result) = 1
    /\ events.result[1].eventCategory = "FINANCIAL"
    /\ events.result[1].timestamp = 2

(***************************************************************************)
(* Properties of the rate limiters                                         *)
(***************************************************************************)
\* C15: for every (limiter, client) key, each request counted beyond the
\* ceiling within a window is rejected with status 429 and a retry-after
\* duration, so the count exceeds the ceiling only by rejected requests; and
\* the key's counter restarts only once its window has expired.
C15_OverCeilingRejected ==
    /\ [](rate.last.client # << >> /\ rate.last.counted > rate.cfg.max =>
             /\ rate.last.response.status = 429
             /\ rate.last.response.retryAfter > 0)
    /\ [][\A c \in Clients :
             LET w == rate.hits[c]
                 v == rate'.hits[c]
             IN  /\ v # w /\ v.count > rate.cfg.max =>
                       /\ rate'.last.client = c
                       /\ rate'.last.response.status = 429
                 /\ w # NoWindow /\ (v.resetTime # w.resetTime \/ v.count < w.count) =>
                       /\ now >= w.resetTime
                       /\ v.count <= 1]_vars

\* C15 witness: a remote client past the ceiling of a limiter built with
\* handler(), rejected, after an earlier window of the key has expired
C15_Witness ==
    /\ rate.last.client = Remote
    /\ rate.cfg.retry > 0
    /\ rate.last.counted > rate.cfg.max
    /\ rate.last.response.status = 429
    /\ now >= rate.cfg.windowMs

\* C25: on the authentication routes a delay is injected before requests are
\* rejected: it starts once the count of the window passes a threshold lower
\* than the rejection ceiling, it grows as the count grows, and it never
\* exceeds the configured maximum
C25_IncreasingBoundedDelay ==
    /\ [](rate.last.client # << >> =>
            /\ rate.cfg.delayAfter < authLimiter.max
            /\ (rate.last.delay > 0) = (rate.last.used > rate.cfg.delayAfter)
            /\ rate.last.delay <= rate.cfg.maxDelayMs)
    /\ [][(/\ rate.last.client # << >>
           /\ rate'.last.client = rate.last.client
           /\ rate'.last.used = rate.last.used + 1
           /\ rate.last.used > rate.cfg.delayAfter
           /\ rate.last.delay < rate.cfg.maxDelayMs)
              => rate'.last.delay > rate.last.delay]_vars

(***************************************************************************)
(* Properties of the compliance reports and histories                      *)
(***************************************************************************)
\* the times of the runs of the history that lie in [t - period, t]
WindowKeys(period, t) ==
    { k \in DOMAIN results : k >= t - PeriodSeconds(period) /\ k <= t }

\* the sum of a field over the runs of the history stored under the keys S
RECURSIVE HistorySum(_, _)
HistorySum(S, field) ==
    IF S = {} THEN 0
    ELSE LET k == CHOOSE x \in S : TRUE
         IN  results[k][field] + HistorySum(S \ {k}, field)

\* the report r gives the totals of the runs under the keys S
ReportsTotals(r, S) ==
    /\ {"totalRuns", "totalChecks", "totalPassed", "totalFailed", "complianceStatus"}
           \subseteq DOMAIN r
    /\ r.totalRuns = Cardinality(S)
    /\ r.totalChecks = HistorySum(S, "totalChecks")
    /\ r.totalPassed = HistorySum(S, "passed")
    /\ r.totalFailed = HistorySum(S, "failed")
    /\ r.complianceStatus \in {"COMPLIANT", "NON-COMPLIANT"}
    /\ r.complianceStatus = "COMPLIANT" <=> HistorySum(S, "failed") = 0

\* report' is what a generateReport call of this step returned
Reported == report' # report /\ report'.period \in {"1h", "24h", "7d", "30d"}

\* C16 (as claimed): generateReport(period) reports totalRuns, totalChecks,
\* totalPassed and totalFailed over exactly the runs of the window
\* [now - period, now], and complianceStatus COMPLIANT iff the failed count
\* over the window is 0.
C16_ReportOverWindow ==
    [][Reported => ReportsTotals(report', WindowKeys(report'.period, now))]_vars

\* C16 (amended): when at least one run of the history lies in the window the
\* report gives those totals and is COMPLIANT iff the failed count over the
\* window is 0; when none does, generateReport returns only the period, the
\* message 'No checks run' and a timestamp, with no totals and no
\* complianceStatus.
C16_ReportOverNonEmptyWindow ==
    [][Reported =>
         LET S == WindowKeys(report'.period, now)
         IN  IF S = {}
             THEN report' = [period |-> report'.period, message |-> "No checks run",
                             timestamp |-> now]
             ELSE ReportsTotals(report', S)]_vars

\* C16 witness: a one-hour report that counts one of the two runs of the
\* history, the other being older than the window, and is NON-COMPLIANT
C16_Witness ==
    /\ report.period = "1h"
    /\ "totalRuns" \in DOMAIN report
    /\ report.totalRuns = 1
    /\ report.totalFailed > 0
    /\ report.complianceStatus = "NON-COMPLIANT"
    /\ Cardinality(DOMAIN results) = 2

\* the COMPLIANCE_CHECK documents of the security collection
CheckDocs(docs) ==
    LET IsCheck(d) == d.action = "COMPLIANCE_CHECK"
    IN  SelectSeq(docs, IsCheck)

\* the severity and result the contract gives a run with n failed checks
ClaimedSeverity(n) == IF n = 0 THEN "LOW" ELSE IF n <= 3 THEN "MEDIUM" ELSE "HIGH"

ClaimedResult(n) == IF n = 0 THEN "SUCCESS" ELSE "FAILURE"

FailedCount(checks) == Cardinality({ i \in DOMAIN checks : ~checks[i].passed })

\* C17: each run of runContinuousChecks writes exactly one SECURITY event with
\* action COMPLIANCE_CHECK, severity LOW with no failed check, MEDIUM with 1
\* to 3 and HIGH with more, and result SUCCESS iff no check failed; no other
\* step of the monitor adds a COMPLIANCE_CHECK document.
C17_OneCheckEventPerRun ==
    [][\A s \in Slots :
         IF runs[s].pc = "logging" /\ runs'[s].pc # "logging"
         THEN LET n == FailedCount(runs[s].checks)
                  ev == runs[s].eventData
                  before == CheckDocs(securityLog)
                  after == CheckDocs(securityLog')
              IN  /\ ev.eventCategory = "SECURITY"
                  /\ ev.action = "COMPLIANCE_CHECK"
                  /\ ev.severity = ClaimedSeverity(n)
                  /\ ev.result = ClaimedResult(n)
                  /\ \/ after = before
                     \/ /\ Len(after) = Len(before) + 1
                        /\ SubSeq(after, 1, Len(before)) = before
                        /\ after[Len(after)].severity = ClaimedSeverity(n)
                        /\ after[Len(after)].result = ClaimedResult(n)
         ELSE (\A r \in Slots : runs[r].pc = "logging" => runs'[r].pc = "logging")
                  => CheckDocs(securityLog') = CheckDocs(securityLog)]_vars

\* C17 witness: the stored events of a run with four failed checks (HIGH) and
\* of a run with fewer (MEDIUM)
C17_Witness ==
    /\ Len(CheckDocs(securityLog)) = 2
    /\ \E i, j \in DOMAIN securityLog :
          /\ securityLog[i].action = "COMPLIANCE_CHECK"
          /\ securityLog[i].severity = "HIGH"
          /\ securityLog[j].action = "COMPLIANCE_CHECK"
          /\ securityLog[j].severity = "MEDIUM"
          /\ securityLog[j].result = "FAILURE"

\* the runs that have completed: each pushed one entry on the tail, and the
\* ones still waiting in alert() have not completed yet
Completed == Len(auditLog) - Cardinality({ s \in Slots : runs[s].pc = "alerting" })

\* C23: overlapping or back-to-back compliance runs do not interfere: every
\* completed run is its own entry of the history, so a report over a window
\* that contains the K completed runs has totalRuns = K
C23_EveryRunInHistory ==
    Completed > 0 => generateReport(results, "24h", now).totalRuns = Completed

\* C24: a compliance run invokes alerting if and only if at least one check
\* failed, and before it returns; a failure inside alerting does not fail the
\* run, which still stores and returns its summary
C24_AlertIffFailed ==
    [][\A s \in Slots :
         /\ (runs[s].pc = "logging" /\ runs'[s] # runs[s]) =>
                IF Len(Tally(runs[s].checks).failed) > 0
                THEN runs'[s].pc = "alerting"
                ELSE runs'[s].pc = "done"
         /\ (runs[s].pc = "alerting" /\ runs'[s] # runs[s]) =>
                /\ runs'[s].pc = "done"
                /\ runs'[s].summary = Summary(runs[s].checks, now)
                /\ MapHas(results', now) /\ results'[now] = runs'[s].summary]_vars

\* a run with failed checks has returned its summary although the alert's
\* document could not be stored
C24_Witness ==
    \E s \in Slots :
        /\ runs[s].pc = "done"
        /\ runs[s].summary.failed > 0
        /\ MapHas(results, now) /\ results[now] = runs[s].summary
        /\ \A i \in DOMAIN securityLog : securityLog[i].action # "COMPLIANCE_ALERT"

\* the runs the history holds
HistorySize == Cardinality(DOMAIN results)

\* the state of the long-running monitor is the one its runs build: after
\* the n-th run, with no test event on the tail, it is AfterRuns(env, n)
HistoryShape ==
    (runs[1].pc = "done" /\ TestEvents = 0 /\ HistorySize <= TailMax)
        => LET a == AfterRuns(env, HistorySize)
           IN  /\ results = a.results
               /\ auditLog = a.auditLog
               /\ securityLog = a.securityLog
               /\ runs[1] = a.run
               /\ now = a.now

\* C18: the in-process history of compliance runs holds at most the
\* retention size of 1000 entries after any number of runs
C18_HistoryBounded == HistorySize <= TailMax

\* q, or q without its oldest entries
IsSuffix(q, all) ==
    /\ Len(q) <= Len(all)
    /\ q = SubSeq(all, Len(all) - Len(q) + 1, Len(all))

\* C19: the in-process audit tail never holds more than 1000 events, whoever
\* writes it (compliance runs, the test-event route), and a write that trims
\* it keeps the most recent 1000 events in append order
C19_TailBounded ==
    /\ [](Len(auditLog) <= TailMax)
    /\ [][auditLog' # auditLog =>
            LET pushed == Append(auditLog, auditLog'[Len(auditLog')])
            IN  /\ Len(auditLog') > 0
                /\ IsSuffix(auditLog', pushed)
                /\ Len(auditLog') < Len(pushed) => Len(auditLog') = TailMax]_vars

(***************************************************************************)
(* Specifications                                                          *)
(***************************************************************************)
Init == LockInit /\ MonInit /\ FraudInit /\ AuditInit /\ RateInit

\* the environment and the limiter of the deployment whose other components
\* are explored
DeployedEnv == [secretLen |-> 64, expiry |-> [n |-> 6, h |-> TRUE], refresh |-> TRUE]

DeployedLimiter == rate.cfg = authLimiter /\ ~rate.dev

InitDeployed == Init /\ env = DeployedEnv /\ DeployedLimiter

SpecLockout == InitDeployed /\ [][LockNext]_vars

InitMonitor == Init /\ DeployedLimiter

SpecMonitor == InitMonitor /\ [][MonNext]_vars

SpecFraud == InitDeployed /\ [][FraudNext]_vars

SpecAudit == InitDeployed /\ [][AuditNext]_vars

InitRate == Init /\ env = DeployedEnv

SpecReport == InitDeployed /\ [][ReportNext]_vars

SpecRate == InitRate /\ [][RateNext]_vars

\* the deployed server after RunsBefore healthy runs of the monitor
InitHistory ==
    /\ now = AfterRuns(DeployedEnv, RunsBefore).now
    /\ attempts = EmptyMap
    /\ lastCall = NoCall
    /\ streak = [k \in Keys |-> 0]
    /\ lastFail = [k \in Keys |-> 0]
    /\ plain = EmptyMap
    /\ env = DeployedEnv
    /\ report = NoReport
    /\ events = NoEvents
    /\ runs = [s \in Slots |-> IF s = 1 THEN AfterRuns(DeployedEnv, RunsBefore).run
                                        ELSE IdleRun]
    /\ results = AfterRuns(DeployedEnv, RunsBefore).results
    /\ auditLog = AfterRuns(DeployedEnv, RunsBefore).auditLog
    /\ securityLog = AfterRuns(DeployedEnv, RunsBefore).securityLog
    /\ FraudInit
    /\ AuditInit
    /\ RateInit
    /\ DeployedLimiter
InitSlow == LockInit /\ MonInit /\ FraudInit /\ AuditInit /\ SlowInit /\ env = DeployedEnv
SpecSlow == InitSlow /\ [][SlowNext]_vars
InitEvents ==
    /\ now = 0
    /\ attempts = EmptyMap
    /\ lastCall = NoCall
    /\ streak = [k \in Keys |-> 0]
    /\ lastFail = [k \in Keys |-> 0]
    /\ plain = EmptyMap
    /\ env = DeployedEnv
    /\ report = NoReport
    /\ events = NoEvents
    /\ runs = [s \in Slots |-> IdleRun]
    /\ results = EmptyMap
    /\ auditLog = << >>
    /\ EventsInit
    /\ FraudInit
    /\ payments = [p \in PaymentIds |-> NoPayment]
    /\ auditCall = [name |-> "none"]
    /\ RateInit
    /\ DeployedLimiter
SpecEvents == InitEvents /\ [][EventsNext]_vars
SpecHistory == InitHistory /\ [][HistoryNext]_vars
SpecSweep == InitDeployed /\ [][SweepNext]_vars /\ SweepFairness

====
